---- MODULE Spec2Model ----
(***************************************************************************)
(* Model of the crawl job pipeline of tesis-crawler:                       *)
(*   app/core/job_manager.py  - the job registry (JobManager)              *)
(*   app/api/scrape.py        - POST /scrape, run_scrape_task, the         *)
(*                              progress estimator and the simulated pulse *)
(*   app/tasks/worker.py      - CrawlWorker.run_institutional_crawl        *)
(*                                                                         *)
(* Percentages are kept in hundredths of a percent (2.0 % is 200), which   *)
(* is the resolution _safe_progress rounds to.  Time is in whole seconds.  *)
(* Python's None is the empty sequence, a present value v is <<v>>.        *)
(***************************************************************************)
EXTENDS Integers, Sequences, FiniteSets, TLC

VARIABLES
    jobs,       \* JobManager._jobs: job id -> JobProgress record
    tasks,      \* scheduled run_scrape_task coroutines: job id -> locals
    now,        \* datetime.now(), seconds
    response,   \* last answer of /scrape (None before the first)
    call        \* last direct call on an object or function and how it ended

vars == <<jobs, tasks, now, response, call>>

----------------------------------------------------------------------------
(* Bounds *)

MaxResults == 2      \* longest result list crawler.arun returns
MaxPages == 2        \* largest max_pages a request carries
MaxClock == 60       \* the clock stops advancing here
MaxAmount == 2       \* largest amount passed to increment_metric
MaxMetric == 2       \* callers stop incrementing a metric at this value

UUIDs == {"u1"}                \* values uuid.uuid4() can return
\* (host_filter.stats.rejected_urls, block_filter.stats.rejected_urls) when
\* crawler.arun returns
FilterStats == {<<1, 2>>}
CallerIds == UUIDs \cup {"u9"}  \* job ids a caller can pass; u9 is never issued
TickSteps == {60}              \* seconds the clock advances by in one step
SchemeInputs == {"https", "HTTPS", "http", "ftp"}

None == <<>>
Some(v) == <<v>>

Max(a, b) == IF a >= b THEN a ELSE b
Min(a, b) == IF a <= b THEN a ELSE b

\* dict.get(key, default)
Get(d, k, default) == IF k \in DOMAIN d THEN d[k] ELSE default

----------------------------------------------------------------------------
(* Rounding and the progress curves (scrape.py) *)

\* round(num/den * 100 hundredths, 2) for a non-negative ratio given in
\* hundredths: nearest integer, ties to even, as Python's round().
RoundHalfEven(num, den) ==
    LET q == num \div den
        r == num % den
    IN  IF 2 * r < den THEN q
        ELSE IF 2 * r > den THEN q + 1
        ELSE IF q % 2 = 0 THEN q ELSE q + 1

\* _safe_progress on a value num/den (hundredths)
safe_progress(num, den) == Max(0, Min(10000, RoundHalfEven(num, den)))

\* _simulated_tracking_progress(elapsed_seconds)
simulated_tracking_progress(elapsed) ==
    LET t == Max(0, elapsed)
    IN  IF t <= 20 THEN safe_progress(200 * 20 + t * 800, 20)
        ELSE IF t <= 60 THEN safe_progress(1000 * 40 + (t - 20) * 1500, 40)
        ELSE IF t <= 120 THEN safe_progress(2500 * 60 + (t - 60) * 1500, 60)
        ELSE IF t <= 180 THEN safe_progress(4000 * 60 + (t - 120) * 1200, 60)
        ELSE IF t <= 240 THEN safe_progress(5200 * 60 + (t - 180) * 1000, 60)
        ELSE IF t <= 300 THEN safe_progress(6200 * 60 + (t - 240) * 800, 60)
        ELSE safe_progress(Min(8200 * 120, 7000 * 120 + (t - 300) * 1200), 120)

\* round((a/T) ** 0.55 * 95.0, 2) in hundredths, a <= T; the float values
\* the code computes for the ratios the bounded model can form.
ValidCurve(a, T) ==
    IF a <= 0 THEN 0
    ELSE IF a >= T THEN 9500
    ELSE CASE <<a, T>> = <<1, 2>> -> 6489
           [] <<a, T>> = <<1, 3>> -> 5192
           [] <<a, T>> = <<2, 3>> -> 7601
           [] <<a, T>> = <<1, 4>> -> 4432
           [] <<a, T>> = <<2, 4>> -> 6489
           [] <<a, T>> = <<3, 4>> -> 8110

\* round((o/B) ** 0.60 * 90.0, 2) in hundredths for the small observed
\* totals and the budgets 501..504 the bounded model can form.
BudgetCurve(o, B) ==
    IF o <= 0 THEN 0
    ELSE IF o >= B THEN 9000
    ELSE CASE o = 1 -> (IF B <= 502 THEN 216 ELSE 215)
           [] o = 2 -> (IF B <= 503 THEN 327 ELSE 326)
           [] o = 3 -> (IF B <= 502 THEN 417 ELSE 416)
           [] o = 4 -> (IF B <= 502 THEN 496 ELSE IF B = 503 THEN 495 ELSE 494)
           [] o = 5 -> (IF B <= 502 THEN 567 ELSE IF B = 503 THEN 566 ELSE 565)

\* _estimate_progress(metrics, max_pages, count_valid_pages_only)[0]
estimate_progress(metrics, max_pages, count_valid_pages_only) ==
    LET accepted == Get(metrics, "accepted_valid_pages", 0)
        successful == Get(metrics, "successful_results", 0)
        total_results == Get(metrics, "total_results", 0)
        crawl_budget_pages == Get(metrics, "crawl_budget_pages", max_pages)
        finished_reason == Get(metrics, "finished_reason", "running")
        target == Max(1, max_pages)
        observed_total == IF total_results > 0 THEN total_results
                          ELSE Max(successful, accepted)
        pct0 == IF count_valid_pages_only
                THEN Max(ValidCurve(accepted, target),
                         BudgetCurve(observed_total, Max(1, crawl_budget_pages)))
                ELSE safe_progress(successful * 10000, target)
    IN  IF finished_reason = "frontier_exhausted" /\ pct0 < 9500
        THEN Max(pct0, 9500) ELSE pct0

\* _estimate_progress(...)[1]
estimate_phase(metrics) ==
    IF Get(metrics, "total_results", 0) = 0
       /\ Get(metrics, "successful_results", 0) = 0
    THEN "rastreando" ELSE "procesando"

----------------------------------------------------------------------------
(* JobManager (job_manager.py) *)

\* JobProgress.metrics default_factory
DefaultMetrics ==
    [total_results |-> 0, successful_results |-> 0, saved_docs |-> 0,
     saved_markdown_files |-> 0, skipped_invalid_content |-> 0,
     skipped_ingestion |-> 0, skipped_save_markdown |-> 0,
     skipped_processing_errors |-> 0, skipped_db_disabled |-> 0,
     blocked_by_host_filter |-> 0, blocked_by_allow_filter |-> 0,
     matched_allow_filter |-> 0, blocked_by_block_filter |-> 0]

\* JobProgress(job_id=job_id, status="pending") built at time t
NewJobProgress(job_id, t) ==
    [job_id |-> job_id, status |-> "pending", phase |-> "pending",
     message |-> <<"En cola">>, progress_pct |-> 0, eta_seconds |-> None,
     pages_crawled |-> 0, errors |-> <<>>, started_at |-> t,
     finished_at |-> None, last_updated_at |-> t, metrics |-> DefaultMetrics]

\* JobManager.create_job with uuid4() = job_id
create_job(reg, job_id, t) ==
    [j \in DOMAIN reg \cup {job_id} |->
        IF j = job_id THEN NewJobProgress(job_id, t) ELSE reg[j]]

\* JobProgress.status: Literal["pending", "running", "completed", "failed"]
Statuses == {"pending", "running", "completed", "failed"}

\* The exception update_job(job_id, **kwargs) ends with, None if it returns:
\* JobProgress(**current) validates the merged record, and only a known id
\* gets that far.
update_job_error(reg, job_id, kwargs) ==
    IF job_id \in DOMAIN reg
       /\ "status" \in DOMAIN kwargs /\ kwargs["status"] \notin Statuses
    THEN Some("ValidationError") ELSE None

\* update_job that stores a record for an id it does not know
update_job_Upsert(reg, job_id, kwargs, t) ==
    LET base == IF job_id \in DOMAIN reg THEN reg[job_id]
                ELSE NewJobProgress(job_id, t)
    IN  [j \in DOMAIN reg \cup {job_id} |->
            IF j = job_id
            THEN [f \in DOMAIN base |->
                    IF f = "last_updated_at" THEN t
                    ELSE IF f \in DOMAIN kwargs THEN kwargs[f]
                    ELSE base[f]]
            ELSE reg[j]]

\* update_job that stamps every record of the registry
update_job_TouchAll(reg, job_id, kwargs, t) ==
    IF job_id \in DOMAIN reg /\ update_job_error(reg, job_id, kwargs) = None
    THEN [j \in DOMAIN reg |->
            [f \in DOMAIN reg[j] |->
                IF f = "last_updated_at" THEN t
                ELSE IF j = job_id /\ f \in DOMAIN kwargs THEN kwargs[f]
                ELSE reg[j][f]]]
    ELSE reg

\* update_job that builds the record from the defaults and the keyword
\* arguments instead of from the stored record
update_job_FromDefaults(reg, job_id, kwargs, t) ==
    IF job_id \in DOMAIN reg /\ update_job_error(reg, job_id, kwargs) = None
    THEN [reg EXCEPT ![job_id] =
            [f \in DOMAIN reg[job_id] |->
                IF f = "last_updated_at" THEN t
                ELSE IF f \in DOMAIN kwargs THEN kwargs[f]
                ELSE NewJobProgress(job_id, t)[f]]]
    ELSE reg

\* JobManager.update_job(job_id, **kwargs) at time t: the registry it leaves
update_job(reg, job_id, kwargs, t) ==
    IF job_id \in DOMAIN reg /\ update_job_error(reg, job_id, kwargs) = None
    THEN [reg EXCEPT ![job_id] =
            [f \in DOMAIN reg[job_id] |->
                IF f = "last_updated_at" THEN t
                ELSE IF f \in DOMAIN kwargs THEN kwargs[f]
                ELSE reg[job_id][f]]]
    ELSE reg

\* The exception increment_metric ends with, None if it returns: adding
\* an int to the string stored under finished_reason is a TypeError.
increment_metric_error(reg, job_id, key) ==
    IF job_id \in DOMAIN reg
       /\ key = "finished_reason" /\ key \in DOMAIN reg[job_id].metrics
    THEN Some("TypeError") ELSE None

\* increment_metric that adds to the metrics the job was created with
\* instead of to the stored ones
increment_metric_Stale(reg, job_id, key, amount) ==
    IF job_id \notin DOMAIN reg \/ increment_metric_error(reg, job_id, key) # None
    THEN reg
    ELSE LET metrics == DefaultMetrics
             bumped == [k \in DOMAIN metrics \cup {key} |->
                          IF k = key THEN Get(metrics, key, 0) + amount
                          ELSE metrics[k]]
         IN  [reg EXCEPT ![job_id].metrics = bumped]

\* JobManager.increment_metric(job_id, key, amount): the registry it leaves
increment_metric(reg, job_id, key, amount) ==
    IF job_id \notin DOMAIN reg \/ increment_metric_error(reg, job_id, key) # None
    THEN reg
    ELSE LET metrics == reg[job_id].metrics
             bumped == [k \in DOMAIN metrics \cup {key} |->
                          IF k = key THEN Get(metrics, key, 0) + amount
                          ELSE metrics[k]]
         IN  [reg EXCEPT ![job_id].metrics = bumped]

\* JobManager.get_job
get_job(reg, job_id) == IF job_id \in DOMAIN reg THEN Some(reg[job_id]) ELSE None

----------------------------------------------------------------------------
(* POST /scrape (scrape.py) *)

\* The scheme as pydantic's HttpUrl holds it: lower-cased
Lower(scheme) == IF scheme = "HTTPS" THEN "https" ELSE scheme

\* Request validation with the field validator left out
validate_https_url_TypeOnly(scheme) == Lower(scheme) \in {"http", "https"}

\* Request validation of ScrapeRequest.url: the HttpUrl type admits http and
\* https, validate_https_url then admits https only.
validate_https_url(scheme) ==
    /\ Lower(scheme) \in {"http", "https"}
    /\ Lower(scheme) = "https"

\* The keyword arguments start_scraping hands to run_scrape_task
Requests ==
    [max_pages : 1..MaxPages, count_valid_pages_only : BOOLEAN,
     persist_to_db : BOOLEAN, save_markdown_files : BOOLEAN,
     use_allow_filter : BOOLEAN]

\* A run_scrape_task coroutine added to the background tasks
NewTask(req) ==
    [pc |-> "queued", req |-> req, started_at |-> 0,
     first_metrics_seen |-> FALSE, pulse |-> "none",
     metrics |-> [unbound |-> TRUE], idx |-> 0, exc |-> None]

\* POST /scrape with a url of the given scheme: request validation, then
\* start_scraping
Submit(scheme) ==
    /\ IF validate_https_url(scheme)
       THEN \E job_id \in UUIDs \ DOMAIN jobs, req \in Requests :
              /\ jobs' = create_job(jobs, job_id, now)
              /\ tasks' = [j \in DOMAIN tasks \cup {job_id} |->
                             IF j = job_id THEN NewTask(req) ELSE tasks[j]]
              /\ response' = Some([code |-> 200, job_id |-> job_id,
                                   status |-> "accepted"])
       ELSE /\ response' = Some([code |-> 422])
            /\ UNCHANGED <<jobs, tasks>>
    /\ UNCHANGED <<now, call>>

----------------------------------------------------------------------------
(* run_scrape_task (scrape.py) *)

\* on_progress without the nudge
MergeProgress_NoNudge(est, current_pct, finished_reason) ==
    Max(est, current_pct)

\* on_progress with 'pct = max(pct, current_pct)' left out
MergeProgress_NoMax(est, current_pct, finished_reason) ==
    IF finished_reason = "running" /\ est <= current_pct /\ current_pct < 9990
    THEN safe_progress(current_pct + 10, 1) ELSE est

\* on_progress: the percentage written, from the estimate, the stored
\* percentage and the finished_reason of the snapshot
MergeProgress(est, current_pct, finished_reason) ==
    LET pct == Max(est, current_pct)
    IN  IF finished_reason = "running" /\ pct <= current_pct
           /\ current_pct < 9990
        THEN safe_progress(current_pct + 10, 1) ELSE pct

\* on_progress with the ETA computed without the test on pct
EtaSeconds_NoRange(pct, elapsed) ==
    IF pct > 0 /\ elapsed > 0
    THEN Some(((10000 - pct) * elapsed) \div pct) ELSE None

\* on_progress: the eta written with percentage pct after elapsed seconds
EtaSeconds(pct, elapsed) ==
    IF pct >= 300 /\ pct < 10000 /\ elapsed > 0
    THEN Some(((10000 - pct) * elapsed) \div pct) ELSE None

\* on_progress(metrics) of the task tk of job job_id: the registry it leaves
on_progress(reg, job_id, tk, metrics, t) ==
    LET est == estimate_progress(metrics, tk.req.max_pages,
                                 tk.req.count_valid_pages_only)
        current_job == get_job(reg, job_id)
        current_pct == IF current_job # None
                       THEN current_job[1].progress_pct ELSE 0
        pct == MergeProgress(est, current_pct,
                             Get(metrics, "finished_reason", "running"))
        elapsed == Max(t - tk.started_at, 0)
        eta == EtaSeconds(pct, elapsed)
        accepted == Get(metrics, "accepted_valid_pages",
                        Get(metrics, "successful_results", 0))
        phase == estimate_phase(metrics)
    IN  update_job(reg, job_id,
            [phase |-> phase,
             message |-> IF phase = "rastreando"
                         THEN <<"Explorando enlaces y descargando paginas">>
                         ELSE <<"Procesando resultados",
                                Get(metrics, "accepted_valid_pages", 0)>>,
             progress_pct |-> pct, eta_seconds |-> eta,
             pages_crawled |-> accepted, metrics |-> metrics], t)

\* run_scrape_task up to the first await: the 'running' update and the
\* creation of the pulse task
StartTask(j) ==
    /\ j \in DOMAIN tasks /\ tasks[j].pc = "queued"
    /\ jobs' = update_job(jobs, j,
                 [status |-> "running", phase |-> "iniciando",
                  message |-> <<"Iniciando scraping">>, progress_pct |-> 200,
                  eta_seconds |-> None, errors |-> <<>>, finished_at |-> None,
                  pages_crawled |-> 0, metrics |-> DefaultMetrics], now)
    /\ tasks' = [tasks EXCEPT ![j].pc = "crawling", ![j].started_at = now,
                              ![j].first_metrics_seen = FALSE,
                              ![j].pulse = "sleeping"]
    /\ UNCHANGED <<now, response, call>>

\* A pulse that neither honours its cancellation nor looks at the status
\* of the job before it writes
PulseTick_Unguarded(j) ==
    /\ j \in DOMAIN tasks /\ tasks[j].pulse \in {"sleeping", "cancelled"}
    /\ IF get_job(jobs, j) = None
       THEN /\ tasks' = [tasks EXCEPT ![j].pulse = "returned"]
            /\ UNCHANGED jobs
       ELSE IF tasks[j].first_metrics_seen
       THEN UNCHANGED <<jobs, tasks>>
       ELSE /\ jobs' = update_job(jobs, j,
                         [phase |-> "rastreando",
                          message |-> <<"Explorando enlaces y descargando paginas">>,
                          progress_pct |-> simulated_tracking_progress(
                                               now - tasks[j].started_at)], now)
            /\ UNCHANGED tasks
    /\ UNCHANGED <<now, response, call>>

\* A pulse that does not look at first_metrics_seen
PulseTick_NoFlag(j) ==
    /\ j \in DOMAIN tasks /\ tasks[j].pulse = "sleeping"
    /\ IF get_job(jobs, j) = None \/ get_job(jobs, j)[1].status # "running"
       THEN /\ tasks' = [tasks EXCEPT ![j].pulse = "returned"]
            /\ UNCHANGED jobs
       ELSE /\ jobs' = update_job(jobs, j,
                         [phase |-> "rastreando",
                          message |-> <<"Explorando enlaces y descargando paginas">>,
                          progress_pct |-> simulated_tracking_progress(
                                               now - tasks[j].started_at)], now)
            /\ UNCHANGED tasks
    /\ UNCHANGED <<now, response, call>>

\* One round of simulated_progress_pulse, from the return of sleep(1) to
\* the next sleep or to the return
PulseTick(j) ==
    /\ j \in DOMAIN tasks /\ tasks[j].pulse = "sleeping"
    /\ IF get_job(jobs, j) = None \/ get_job(jobs, j)[1].status # "running"
       THEN /\ tasks' = [tasks EXCEPT ![j].pulse = "returned"]
            /\ UNCHANGED jobs
       ELSE IF tasks[j].first_metrics_seen
       THEN UNCHANGED <<jobs, tasks>>
       ELSE /\ jobs' = update_job(jobs, j,
                         [phase |-> "rastreando",
                          message |-> <<"Explorando enlaces y descargando paginas">>,
                          progress_pct |-> simulated_tracking_progress(
                                               now - tasks[j].started_at)], now)
            /\ UNCHANGED tasks
    /\ UNCHANGED <<now, response, call>>

\* Time passes
Tick ==
    /\ \E d \in TickSteps : now + d <= MaxClock /\ now' = now + d
    /\ UNCHANGED <<jobs, tasks, response, call>>

----------------------------------------------------------------------------
(* CrawlWorker.run_institutional_crawl (worker.py) *)

\* The budget with min and max exchanged
crawl_budget_pages_MinMax(max_pages, count_valid_pages_only) ==
    IF count_valid_pages_only
    THEN Max(Min(max_pages * 4, max_pages + 500), 50000)
    ELSE max_pages

\* crawl_budget_pages
crawl_budget_pages(max_pages, count_valid_pages_only) ==
    IF count_valid_pages_only
    THEN Min(Max(max_pages * 4, max_pages + 500), 50000)
    ELSE max_pages

\* The metrics dict built once crawler.arun has returned a list of n results
InitialMetrics(n, req, blocked_host, blocked_block) ==
    [total_results |-> n, finished_reason |-> "running",
     target_valid_pages |-> req.max_pages,
     crawl_budget_pages |->
         crawl_budget_pages(req.max_pages, req.count_valid_pages_only),
     accepted_valid_pages |-> 0, successful_results |-> 0, saved_docs |-> 0,
     saved_markdown_files |-> 0, skipped_invalid_content |-> 0,
     skipped_ingestion |-> 0, skipped_save_markdown |-> 0,
     skipped_processing_errors |-> 0, skipped_db_disabled |-> 0,
     blocked_by_host_filter |-> blocked_host, blocked_by_allow_filter |-> 0,
     matched_allow_filter |-> 0, blocked_by_block_filter |-> blocked_block]

\* What the collaborators do with one result: the fetch succeeded or not,
\* _invalid_reason found it valid or not, _matches_allow_priority, and how
\* _save_markdown_to_disk and process_and_save ended.
Results ==
    [success : BOOLEAN, valid : BOOLEAN, allow : BOOLEAN,
     md : {"saved", "skipped", "raise"}, db : {"saved", "skipped", "raise"}]

\* The results that differ in what the loop body does with them under req
Relevant(res, req) ==
    /\ ~res.success => ~res.valid
    /\ ~res.valid \/ ~req.use_allow_filter => ~res.allow
    /\ ~res.valid \/ ~req.save_markdown_files => res.md = "saved"
    /\ ~res.valid \/ ~req.persist_to_db \/ (req.save_markdown_files /\ res.md = "raise")
           => res.db = "saved"

Bump(m, key) == [m EXCEPT ![key] = @ + 1]

\* The try block without the else branch of 'if persist_to_db'
Ingest_DbDisabledUncounted(m, res, req) ==
    IF req.save_markdown_files /\ res.md = "raise"
    THEN [metrics |-> Bump(m, "skipped_processing_errors"), raised |-> TRUE]
    ELSE LET m1 == IF ~req.save_markdown_files THEN m
                   ELSE IF res.md = "saved"
                   THEN Bump(m, "saved_markdown_files")
                   ELSE Bump(m, "skipped_save_markdown")
         IN  IF ~req.persist_to_db
             THEN [metrics |-> m1, raised |-> FALSE]
             ELSE IF res.db = "raise"
             THEN [metrics |-> Bump(m1, "skipped_processing_errors"),
                   raised |-> TRUE]
             ELSE IF res.db = "saved"
             THEN [metrics |-> Bump(m1, "saved_docs"), raised |-> FALSE]
             ELSE [metrics |-> Bump(m1, "skipped_ingestion"),
                   raised |-> FALSE]

\* The try block with an except clause that counts nothing
Ingest_NoCount(m, res, req) ==
    IF (req.save_markdown_files /\ res.md = "raise")
       \/ (req.persist_to_db /\ res.db = "raise")
    THEN [metrics |-> m, raised |-> TRUE]
    ELSE [metrics |-> Bump(m, "skipped_db_disabled"), raised |-> FALSE]

\* The try block of the loop body for an accepted page: the metrics when it
\* ends, and whether it ended in the except clause
Ingest(m, res, req) ==
    IF req.save_markdown_files /\ res.md = "raise"
    THEN [metrics |-> Bump(m, "skipped_processing_errors"), raised |-> TRUE]
    ELSE LET m1 == IF ~req.save_markdown_files THEN m
                   ELSE IF res.md = "saved"
                   THEN Bump(m, "saved_markdown_files")
                   ELSE Bump(m, "skipped_save_markdown")
         IN  IF ~req.persist_to_db
             THEN [metrics |-> Bump(m1, "skipped_db_disabled"),
                   raised |-> FALSE]
             ELSE IF res.db = "raise"
             THEN [metrics |-> Bump(m1, "skipped_processing_errors"),
                   raised |-> TRUE]
             ELSE IF res.db = "saved"
             THEN [metrics |-> Bump(m1, "saved_docs"), raised |-> FALSE]
             ELSE [metrics |-> Bump(m1, "skipped_ingestion"),
                   raised |-> FALSE]

\* The loop body with accepted_valid_pages counted before the checks
LoopBody_AcceptFirst(m, res, req) ==
    LET m0 == Bump(m, "accepted_valid_pages")
    IN  IF ~res.success
        THEN [metrics |-> m0, checked |-> FALSE]
        ELSE LET m1 == Bump(m0, "successful_results")
             IN  IF ~res.valid
                 THEN [metrics |-> Bump(m1, "skipped_invalid_content"),
                       checked |-> FALSE]
                 ELSE LET r == Ingest(m1, res, req)
                      IN  [metrics |-> r.metrics, checked |-> ~r.raised]

\* One iteration of 'for res in result' up to its progress_hook call: the
\* metrics handed to the hook, and whether the iteration went on to the
\* target check (it did not end in a 'continue')
LoopBody(m, res, req) ==
    IF ~res.success
    THEN [metrics |-> m, checked |-> FALSE]
    ELSE LET m1 == Bump(m, "successful_results")
         IN  IF ~res.valid
             THEN [metrics |-> Bump(m1, "skipped_invalid_content"),
                   checked |-> FALSE]
             ELSE LET m2 == Bump(m1, "accepted_valid_pages")
                      m3 == IF req.use_allow_filter /\ res.allow
                            THEN Bump(m2, "matched_allow_filter") ELSE m2
                      r == Ingest(m3, res, req)
                  IN  [metrics |-> r.metrics, checked |-> ~r.raised]

\* The check after the hook call: target reached, leave the loop
TargetCheck(m, req) ==
    IF req.count_valid_pages_only
       /\ m["accepted_valid_pages"] >= req.max_pages
    THEN [m EXCEPT !["finished_reason"] = "target_reached"]
    ELSE m

\* crawler.arun returns a list of n results
ArunReturnsList(j, n, blocked_host, blocked_block) ==
    /\ j \in DOMAIN tasks /\ tasks[j].pc = "crawling"
    /\ tasks' = [tasks EXCEPT
                   ![j].pc = "loop", ![j].idx = 0,
                   ![j].metrics = InitialMetrics(n, tasks[j].req,
                                                 blocked_host, blocked_block)]
    /\ UNCHANGED <<jobs, now, response, call>>

\* crawler.arun returns something that is not a list: the whole
\* 'if isinstance(result, list)' block is skipped
ArunReturnsOther(j) ==
    /\ j \in DOMAIN tasks /\ tasks[j].pc = "crawling"
    /\ tasks' = [tasks EXCEPT ![j].pc = "closing"]
    /\ UNCHANGED <<jobs, now, response, call>>

\* One iteration of the result loop, its hook call and the target check
ProcessResult(j, res) ==
    /\ j \in DOMAIN tasks /\ tasks[j].pc = "loop"
    /\ Relevant(res, tasks[j].req)
    /\ tasks[j].idx < tasks[j].metrics["total_results"]
    /\ tasks[j].metrics["finished_reason"] = "running"
    /\ LET tk == tasks[j]
           body == LoopBody(tk.metrics, res, tk.req)
       IN  /\ jobs' = on_progress(jobs, j, tk, body.metrics, now)
           /\ tasks' = [tasks EXCEPT
                          ![j].idx = @ + 1,
                          ![j].first_metrics_seen = TRUE,
                          ![j].metrics = IF body.checked
                                         THEN TargetCheck(body.metrics, tk.req)
                                         ELSE body.metrics]
    /\ UNCHANGED <<now, response, call>>

\* The assignment after the loop without its test
CloseReason_Always(m) == [m EXCEPT !["finished_reason"] = "frontier_exhausted"]

\* if metrics["finished_reason"] == "running": ... = "frontier_exhausted"
CloseReason(m) ==
    IF m["finished_reason"] = "running"
    THEN [m EXCEPT !["finished_reason"] = "frontier_exhausted"]
    ELSE m

\* After the loop: the terminal finished_reason and the last hook call
FinishCrawl(j) ==
    /\ j \in DOMAIN tasks /\ tasks[j].pc = "loop"
    /\ \/ tasks[j].idx = tasks[j].metrics["total_results"]
       \/ tasks[j].metrics["finished_reason"] # "running"
    /\ LET tk == tasks[j]
           m == CloseReason(tk.metrics)
       IN  /\ jobs' = on_progress(jobs, j, tk, m, now)
           /\ tasks' = [tasks EXCEPT ![j].pc = "closing",
                                     ![j].first_metrics_seen = TRUE,
                                     ![j].metrics = m]
    /\ UNCHANGED <<now, response, call>>

----------------------------------------------------------------------------
(* The end of run_scrape_task (scrape.py) *)

\* Exceptions the crawl can raise: str(e), repr(e), traceback.format_exc()
Exceptions ==
    {[str |-> "net down", repr |-> "RuntimeError('net down')",
      tb |-> "Traceback: RuntimeError: net down"],
     [str |-> "", repr |-> "TimeoutError()",
      tb |-> "Traceback: TimeoutError"]}

\* str(e).strip() or repr(e)
ErrorMessage(e) == IF e.str # "" THEN e.str ELSE e.repr

\* The 'completed' update without progress_pct
CompletedFields_NoProgress(t) ==
    [status |-> "completed", phase |-> "completado",
     message |-> <<"Scraping finalizado">>, eta_seconds |-> Some(0),
     finished_at |-> Some(t)]

\* The keyword arguments of the 'completed' update
CompletedFields(t) ==
    [status |-> "completed", phase |-> "completado",
     message |-> <<"Scraping finalizado">>, progress_pct |-> 10000,
     eta_seconds |-> Some(0), finished_at |-> Some(t)]

\* The 'failed' update without eta_seconds
FailedFields_NoEta(e, t) ==
    [status |-> "failed", phase |-> "error",
     message |-> <<"Fallo el scraping">>, finished_at |-> Some(t),
     progress_pct |-> 10000, errors |-> <<ErrorMessage(e), e.tb>>]

\* The keyword arguments of the 'failed' update for the exception e
FailedFields(e, t) ==
    [status |-> "failed", phase |-> "error",
     message |-> <<"Fallo el scraping">>, finished_at |-> Some(t),
     progress_pct |-> 10000, eta_seconds |-> None,
     errors |-> <<ErrorMessage(e), e.tb>>]

\* run_institutional_crawl returns: the 'completed' update, then the
\* finally clause cancels the pulse
Complete(j) ==
    /\ j \in DOMAIN tasks /\ tasks[j].pc = "closing"
    /\ jobs' = update_job(jobs, j, CompletedFields(now), now)
    /\ tasks' = [tasks EXCEPT
                   ![j].pc = "done",
                   ![j].pulse = IF @ = "sleeping" THEN "cancelled" ELSE @]
    /\ UNCHANGED <<now, response, call>>

\* run_institutional_crawl raises e: the 'failed' update, then the finally
\* clause cancels the pulse
Fail(j, e) ==
    /\ j \in DOMAIN tasks /\ tasks[j].pc \in {"crawling", "loop", "closing"}
    /\ jobs' = update_job(jobs, j, FailedFields(e, now), now)
    /\ tasks' = [tasks EXCEPT
                   ![j].pc = "done", ![j].exc = Some(e),
                   ![j].pulse = IF @ = "sleeping" THEN "cancelled" ELSE @]
    /\ UNCHANGED <<now, response, call>>

----------------------------------------------------------------------------
(* The application *)

Init ==
    /\ jobs = <<>>
    /\ tasks = <<>>
    /\ now = 0
    /\ response = None
    /\ call = None

Next ==
    \/ \E scheme \in SchemeInputs : Submit(scheme)
    \/ \E j \in UUIDs : StartTask(j)
    \/ \E j \in UUIDs : PulseTick(j)
    \/ \E j \in UUIDs, n \in 0..MaxResults, st \in FilterStats :
          ArunReturnsList(j, n, st[1], st[2])
    \/ \E j \in UUIDs : ArunReturnsOther(j)
    \/ \E j \in UUIDs, res \in Results : ProcessResult(j, res)
    \/ \E j \in UUIDs : FinishCrawl(j)
    \/ \E j \in UUIDs : Complete(j)
    \/ \E j \in UUIDs, e \in Exceptions : Fail(j, e)
    \/ Tick

Spec == Init /\ [][Next]_vars

----------------------------------------------------------------------------
(* The JobManager driven directly by an arbitrary caller *)

\* Keyword arguments a caller passes to update_job
KwargsSamples ==
    {[status |-> "running", progress_pct |-> 200],
     [status |-> "unknown"],
     [phase |-> "procesando", eta_seconds |-> Some(5)],
     [metrics |-> [total_results |-> 1, finished_reason |-> "running"]],
     [progress_pct |-> 5000, errors |-> <<"e">>]}

\* Metric keys a caller passes to increment_metric
KeySamples == {"saved_docs", "finished_reason", "custom"}

CallCreateJob ==
    /\ \E job_id \in UUIDs \ DOMAIN jobs :
          /\ jobs' = create_job(jobs, job_id, now)
          /\ call' = Some([op |-> "create_job", job_id |-> job_id,
                           error |-> None])
    /\ UNCHANGED <<tasks, now, response>>

CallUpdateJob(job_id, kwargs) ==
    /\ jobs' = update_job(jobs, job_id, kwargs, now)
    /\ call' = Some([op |-> "update_job", job_id |-> job_id,
                     args |-> kwargs,
                     error |-> update_job_error(jobs, job_id, kwargs)])
    /\ UNCHANGED <<tasks, now, response>>

CallIncrementMetric(job_id, key, amount) ==
    /\ job_id \in DOMAIN jobs /\ key # "finished_reason"
          => Get(jobs[job_id].metrics, key, 0) + amount <= MaxMetric
    /\ jobs' = increment_metric(jobs, job_id, key, amount)
    /\ call' = Some([op |-> "increment_metric", job_id |-> job_id,
                     args |-> <<key, amount>>,
                     error |-> increment_metric_error(jobs, job_id, key)])
    /\ UNCHANGED <<tasks, now, response>>

NextJobManager ==
    \/ CallCreateJob
    \/ \E job_id \in CallerIds, kwargs \in KwargsSamples :
          CallUpdateJob(job_id, kwargs)
    \/ \E job_id \in CallerIds, key \in KeySamples, amount \in 1..MaxAmount :
          CallIncrementMetric(job_id, key, amount)
    \/ Tick

SpecJobManager == Init /\ [][NextJobManager]_vars

----------------------------------------------------------------------------
(* Strings.  A str is a string; the operators below are the str methods the *)
(* program calls, positions counted from 1.                                 *)

AsciiLower == "abcdefghijklmnopqrstuvwxyz"
AsciiUpper == "ABCDEFGHIJKLMNOPQRSTUVWXYZ"
Digits == "0123456789"
LowerChars == AsciiLower \o "áéíóúñ"
UpperChars == AsciiUpper \o "ÁÉÍÓÚÑ"
Whitespace == {" ", "\t", "\n"}

\* s[i - 1] in Python
CharAt(s, i) == SubSeq(s, i, i)

\* c in s for a character c
CharIn(c, s) == \E i \in 1..Len(s) : CharAt(s, i) = c

\* str.lower() on one character
lower_char(c) ==
    IF CharIn(c, UpperChars)
    THEN CharAt(LowerChars,
                CHOOSE i \in 1..Len(UpperChars) : CharAt(UpperChars, i) = c)
    ELSE c

\* str.lower()
RECURSIVE str_lower(_)
str_lower(s) ==
    IF s = "" THEN "" ELSE lower_char(Head(s)) \o str_lower(Tail(s))

\* str.lstrip()
str_lstrip(s) ==
    LET kept == {i \in 1..Len(s) : CharAt(s, i) \notin Whitespace}
    IN  IF kept = {} THEN ""
        ELSE SubSeq(s, CHOOSE i \in kept : \A k \in kept : i <= k, Len(s))

\* str.strip()
str_strip(s) ==
    LET kept == {i \in 1..Len(s) : CharAt(s, i) \notin Whitespace}
    IN  IF kept = {} THEN ""
        ELSE SubSeq(s, CHOOSE i \in kept : \A k \in kept : i <= k,
                       CHOOSE i \in kept : \A k \in kept : i >= k)

\* s.find(sub, start): the first position >= start at which sub occurs in
\* s; 0 where Python returns -1
str_find(s, sub, start) ==
    LET hits == {i \in start..(Len(s) - Len(sub) + 1) :
                    SubSeq(s, i, i + Len(sub) - 1) = sub}
    IN  IF hits = {} THEN 0 ELSE CHOOSE i \in hits : \A k \in hits : i <= k

\* s.rfind(sub); 0 where Python returns -1
str_rfind(s, sub) ==
    LET hits == {i \in 1..(Len(s) - Len(sub) + 1) :
                    SubSeq(s, i, i + Len(sub) - 1) = sub}
    IN  IF hits = {} THEN 0 ELSE CHOOSE i \in hits : \A k \in hits : i >= k

\* sub in s
str_in(sub, s) ==
    \E i \in 1..(Len(s) - Len(sub) + 1) : SubSeq(s, i, i + Len(sub) - 1) = sub

\* s.startswith(prefix)
str_startswith(s, prefix) ==
    Len(s) >= Len(prefix) /\ SubSeq(s, 1, Len(prefix)) = prefix

\* s.split(sep, 1)[0] and s.partition(sep)[0]
str_before(s, sep) ==
    LET i == str_find(s, sep, 1)
    IN  IF i = 0 THEN s ELSE SubSeq(s, 1, i - 1)

\* The concatenation of a sequence of strs
RECURSIVE Concat(_)
Concat(ps) == IF ps = <<>> THEN "" ELSE Head(ps) \o Concat(Tail(ps))

\* The sequences of at most n elements of P
SeqsUpTo(P, n) == UNION {[1..k -> P] : k \in 0..n}

----------------------------------------------------------------------------
(* urllib.parse.urlparse, for urls without '?', '#', '[' and '%' *)

\* urllib.parse.scheme_chars
scheme_chars == AsciiLower \o AsciiUpper \o Digits \o "+-."

\* urlparse(url): scheme, netloc and path of the result
urlparse(url0) ==
    LET url == str_lstrip(url0)
        i == str_find(url, ":", 1)
        has_scheme == /\ i > 1
                      /\ CharIn(CharAt(url, 1), AsciiLower \o AsciiUpper)
                      /\ \A k \in 1..(i - 1) : CharIn(CharAt(url, k), scheme_chars)
        rest == IF has_scheme THEN SubSeq(url, i + 1, Len(url)) ELSE url
        has_netloc == str_startswith(rest, "//")
        delim == str_find(rest, "/", 3)
        netloc_end == IF delim = 0 THEN Len(rest) ELSE delim - 1
    IN  [scheme |-> IF has_scheme THEN str_lower(SubSeq(url, 1, i - 1))
                    ELSE "",
         netloc |-> IF has_netloc THEN SubSeq(rest, 3, netloc_end) ELSE "",
         path |-> IF has_netloc THEN SubSeq(rest, netloc_end + 1, Len(rest))
                  ELSE rest]

\* ParseResult.hostname, the empty str standing for None: the part of the
\* netloc after the last '@' and before the first ':' that follows,
\* lower-cased
hostname(netloc) ==
    LET at == str_rfind(netloc, "@")
        hostinfo == SubSeq(netloc, at + 1, Len(netloc))
    IN  str_lower(str_before(hostinfo, ":"))

----------------------------------------------------------------------------
(* domain_utils.py *)

MaxPieces == 4     \* longest input to the domain functions, in pieces

\* The pieces the inputs of normalize_domain and domain_variants are made of
HostPieces == {"www.", "a", "A", ":8", "https://", " ", "/", "@"}

HostInputs == {Concat(ps) : ps \in SeqsUpTo(HostPieces, MaxPieces)}

\* normalize_domain that keeps a leading 'www.'
normalize_domain_KeepWww(value) ==
    LET raw == str_lower(str_strip(value))
    IN  IF raw = "" THEN ""
        ELSE IF str_in("://", raw)
             THEN str_lower(str_strip(hostname(urlparse(raw).netloc)))
             ELSE str_lower(str_strip(str_before(raw, ":")))

\* normalize_domain(value)
normalize_domain(value) ==
    LET raw == str_lower(str_strip(value))
        host == IF str_in("://", raw)
                THEN str_lower(str_strip(hostname(urlparse(raw).netloc)))
                ELSE str_lower(str_strip(str_before(raw, ":")))
    IN  IF raw = "" THEN ""
        ELSE IF str_startswith(host, "www.")
             THEN SubSeq(host, 5, Len(host))
             ELSE host

\* domain_variants(value)
domain_variants(value) ==
    LET base == normalize_domain(value)
    IN  IF base = "" THEN {} ELSE {base, "www." \o base}

\* The program starts with x as the value a caller is about to pass
InitDomainUtils ==
    /\ jobs = <<>> /\ tasks = <<>> /\ now = 0 /\ response = None
    /\ call \in {Some([op |-> "input", args |-> x]) : x \in HostInputs}

\* The value the next call is made on: the input, or what the last
\* normalize_domain returned
NextArgument ==
    IF call[1].op = "input" THEN call[1].args ELSE call[1].result

CallNormalizeDomain ==
    /\ call[1].op \in {"input", "normalize_domain"}
    /\ call' = Some([op |-> "normalize_domain", args |-> NextArgument,
                     result |-> normalize_domain(NextArgument)])
    /\ UNCHANGED <<jobs, tasks, now, response>>

CallDomainVariants ==
    /\ call[1].op \in {"input", "normalize_domain"}
    /\ call' = Some([op |-> "domain_variants", args |-> NextArgument,
                     result |-> domain_variants(NextArgument)])
    /\ UNCHANGED <<jobs, tasks, now, response>>

NextDomainUtils == CallNormalizeDomain \/ CallDomainVariants

SpecDomainUtils == InitDomainUtils /\ [][NextDomainUtils]_vars

----------------------------------------------------------------------------
(* ExactHostFilter (worker.py) *)

MaxCalls == 2      \* calls of apply made on one filter

\* parsed_start.netloc of the start url: the host the filter is built for
SeedHosts == {"a.com", "www.a.com"}

\* The netloc of the urls the crawler hands to the filter: the seed host
\* bare, with www., upper-cased and with a port, another host, and hosts
\* behind a userinfo part
NetlocInputs ==
    {"a.com", "www.a.com", "A.com", "a.com:8", "b.com", "www.b.com",
     "b.com@a.com", "a.com@b.com", "a.com:8@b.com", ""}

UrlInputs == {scheme \o "://" \o netloc \o "/" :
                 scheme \in {"https", "http"}, netloc \in NetlocInputs}

\* ExactHostFilter.__init__(host): the fields of the new filter; stats are
\* the counters of crawl4ai's URLFilter
ExactHostFilter_init(host) ==
    [allowed_hosts |-> domain_variants(host),
     rejected_url_samples |-> <<>>,
     stats |-> [total_urls |-> 0, passed_urls |-> 0, rejected_urls |-> 0]]

\* crawl4ai's URLFilter._update_stats(passed)
update_stats(stats, passed) ==
    [total_urls |-> stats.total_urls + 1,
     passed_urls |-> stats.passed_urls + (IF passed THEN 1 ELSE 0),
     rejected_urls |-> stats.rejected_urls + (IF passed THEN 0 ELSE 1)]

\* ExactHostFilter.apply: the value of 'result'
apply_result(self, url) ==
    LET parsed == urlparse(url)
        candidate_host == normalize_domain(parsed.netloc)
    IN  /\ str_lower(parsed.scheme) = "https"
        /\ candidate_host \in self.allowed_hosts

\* ExactHostFilter.apply: the filter after the call (the sample limit of
\* 50000 is not reached within MaxCalls calls)
apply_self(self, url) ==
    LET result == apply_result(self, url)
    IN  [self EXCEPT
            !.rejected_url_samples = IF result THEN @ ELSE Append(@, url),
            !.stats = update_stats(@, result)]

\* A filter has been built for one of the seed hosts
InitHostFilter ==
    /\ jobs = <<>> /\ tasks = <<>> /\ now = 0 /\ response = None
    /\ call \in {Some([op |-> "ExactHostFilter", args |-> host,
                       self |-> ExactHostFilter_init(host)]) :
                    host \in SeedHosts}

CallApply(url) ==
    /\ call[1].self.stats.total_urls < MaxCalls
    /\ call' = Some([op |-> "apply", args |-> url,
                     result |-> apply_result(call[1].self, url),
                     self |-> apply_self(call[1].self, url)])
    /\ UNCHANGED <<jobs, tasks, now, response>>

NextHostFilter == \E url \in UrlInputs : CallApply(url)

SpecHostFilter == InitHostFilter /\ [][NextHostFilter]_vars

----------------------------------------------------------------------------
(* content_filters.py *)

NEWS_URL_TOKENS ==
    {"/notimed", "/noticia", "/novedad", "/prensa", "/comunicado", "/blog",
     "/news", "/agenda", "/evento", "/tag/", "/category/", "/author/"}

NEWS_TEXT_HINTS ==
    {"área de prensa", "sala de prensa", "novedades", "comunicados",
     "felicitamos", "efemérides", "día mundial", "saludo institucional"}

ADMISSION_PRIORITY_HINTS ==
    {"admisión", "admision", "ingresante", "ingresantes", "ingreso",
     "inscripción", "inscripcion", "requisitos de ingreso", "paso a paso",
     "siu guaraní", "siu guarani", "plan de estudios"}

CONDITIONAL_PRIORITY_HINTS ==
    {"documentación", "documentacion", "resolución", "resolucion"}

PRIORITY_CONTEXT_HINTS ==
    {"admisión", "admision", "ingreso", "ingresante", "inscripción",
     "inscripcion", "plan de estudios", "correlatividades", "carrera",
     "carreras"}

\* datetime.now().year
current_year == 2026

\* any(h in text for h in hints)
AnyIn(hints, text) == \E h \in hints : str_in(h, text)

\* s[:n]
Prefix(s, n) == SubSeq(s, 1, Min(n, Len(s)))

\* _normalize(value)
normalize(value) == str_lower(str_strip(value))

\* int(y) for a str of digits
RECURSIVE int(_)
int(y) ==
    IF y = "" THEN 0
    ELSE 10 * int(SubSeq(y, 1, Len(y) - 1))
         + (CHOOSE d \in 0..9 : CharAt(Digits, d + 1) = CharAt(y, Len(y)))

\* The years YEAR_REGEX.findall finds in s from position i on: matches of
\* (?:19|20)\d{2}, leftmost first, not overlapping
RECURSIVE year_values_from(_, _)
year_values_from(s, i) ==
    IF i + 3 > Len(s) THEN {}
    ELSE IF /\ SubSeq(s, i, i + 1) \in {"19", "20"}
            /\ CharIn(CharAt(s, i + 2), Digits)
            /\ CharIn(CharAt(s, i + 3), Digits)
         THEN {int(SubSeq(s, i, i + 3))} \cup year_values_from(s, i + 4)
         ELSE year_values_from(s, i + 1)

\* _year_values(value), as the set of the values of the list
year_values(value) == year_values_from(value, 1)

\* max(years) for a non-empty set of years
MaxOf(years) == CHOOSE y \in years : \A z \in years : y >= z

\* _is_priority_academic_content(url, title, content)
is_priority_academic_content(url, title, content) ==
    LET full_text == normalize(url) \o " " \o normalize(title) \o " "
                        \o normalize(Prefix(content, 2000))
    IN  IF AnyIn(ADMISSION_PRIORITY_HINTS, full_text) THEN TRUE
        ELSE IF AnyIn(CONDITIONAL_PRIORITY_HINTS, full_text)
             THEN AnyIn(PRIORITY_CONTEXT_HINTS, full_text)
             ELSE FALSE

\* is_institutional_news(url, title, content)
is_institutional_news(url, title, content) ==
    IF is_priority_academic_content(url, title, content) THEN FALSE
    ELSE IF AnyIn(NEWS_URL_TOKENS, normalize(url)) THEN TRUE
    ELSE /\ AnyIn(NEWS_TEXT_HINTS, normalize(title))
         /\ AnyIn(NEWS_TEXT_HINTS, Prefix(normalize(content), 1000))

\* is_outdated_content(url, title, content) with max_age_years = 2
is_outdated_content(url, title, content) ==
    LET min_fresh_year == current_year - 2
        url_years == year_values(url)
        content_years == year_values(normalize(Prefix(content, 2000)))
    IN  IF is_priority_academic_content(url, title, content) THEN FALSE
        ELSE IF url_years # {} /\ MaxOf(url_years) < min_fresh_year THEN TRUE
        ELSE /\ is_institutional_news(url, title, content)
             /\ content_years # {}
             /\ MaxOf(content_years) < min_fresh_year

----------------------------------------------------------------------------
(* CrawlWorker: the content validator and the allow marker (worker.py) *)

ALLOW_PRIORITY_TOKENS ==
    {"/admision", "/admisiones", "/ingreso", "/ingresantes", "/inscripcion",
     "/inscripciones", "/carreras", "/oferta-academica",
     "/ofertas-academicas", "/programas", "/plan-de-estudios",
     "/planes-de-estudio", "/requisitos", "/tramites", "/trámites"}

\* CrawlWorker._matches_allow_priority(url, title)
matches_allow_priority(url, title) ==
    LET haystack == str_strip(str_lower(url) \o " " \o str_lower(title))
    IN  AnyIn(ALLOW_PRIORITY_TOKENS, haystack)

\* len(s.split())
word_count(s) ==
    Cardinality({i \in 1..Len(s) :
                    /\ CharAt(s, i) \notin Whitespace
                    /\ i = 1 \/ CharAt(s, i - 1) \in Whitespace})

\* 'página no encontrada' in normalized or 'pagina no encontrada' in normalized
not_found_marker(normalized) ==
    \/ str_in("página no encontrada", normalized)
    \/ str_in("pagina no encontrada", normalized)

\* _invalid_reason with the not-found check left out
invalid_reason_NoNotFound(url, title, content, min_content_words) ==
    LET parsed == urlparse(str_lower(url))
        normalized == str_lower(str_strip(content))
    IN  IF content = "" THEN Some("empty_content")
        ELSE IF normalized = "" THEN Some("blank_content")
        ELSE IF parsed.path \in {"", "/"} THEN Some("root_path")
        ELSE IF word_count(normalized) < Max(1, min_content_words)
             THEN Some("too_short")
        ELSE IF is_institutional_news(url, title, normalized)
             THEN Some("institutional_news")
        ELSE IF is_outdated_content(url, title, normalized)
             THEN Some("outdated_content")
        ELSE None

\* _invalid_reason with the length check made before the not-found check
invalid_reason_ShortFirst(url, title, content, min_content_words) ==
    LET parsed == urlparse(str_lower(url))
        normalized == str_lower(str_strip(content))
    IN  IF content = "" THEN Some("empty_content")
        ELSE IF normalized = "" THEN Some("blank_content")
        ELSE IF parsed.path \in {"", "/"} THEN Some("root_path")
        ELSE IF word_count(normalized) < Max(1, min_content_words)
             THEN Some("too_short")
        ELSE IF not_found_marker(normalized) THEN Some("not_found_page")
        ELSE IF is_institutional_news(url, title, normalized)
             THEN Some("institutional_news")
        ELSE IF is_outdated_content(url, title, normalized)
             THEN Some("outdated_content")
        ELSE None

\* CrawlWorker._invalid_reason(url, title, content, min_content_words)
invalid_reason(url, title, content, min_content_words) ==
    LET url_lc == str_lower(url)
        parsed == urlparse(url_lc)
        normalized == str_lower(str_strip(content))
    IN  IF content = "" THEN Some("empty_content")
        ELSE IF normalized = "" THEN Some("blank_content")
        ELSE IF parsed.path \in {"", "/"} THEN Some("root_path")
        ELSE IF not_found_marker(normalized) THEN Some("not_found_page")
        ELSE IF word_count(normalized) < Max(1, min_content_words)
             THEN Some("too_short")
        ELSE IF is_institutional_news(url, title, normalized)
             THEN Some("institutional_news")
        ELSE IF is_outdated_content(url, title, normalized)
             THEN Some("outdated_content")
        ELSE None

MaxSegments == 2    \* most path segments in the url of a page

\* The path segments the urls of the pages are made of
PathSegments == {"/carreras", "/prensa", "/2019"}

\* res.url: the site root with and without its slash, and the pages below
PageUrls ==
    {"https://a.com" \o Concat(ps) : ps \in SeqsUpTo(PathSegments, MaxSegments)}
       \cup {"https://a.com/"}

\* res.metadata.get("title", "")
PageTitles == {"", "Sala de Prensa"}

\* res.markdown
PageContents ==
    {"", "   ",
     "Página no encontrada",
     "Error 404: pagina no encontrada en este sitio web",
     "Página no encontrada: requisitos de ingreso a la carrera",
     "uno dos tres",
     "Oferta de grado y posgrado de la facultad",
     "Novedades y comunicados de la sala de prensa",
     "Comunicados de la sala de prensa del 2019",
     "Requisitos de ingreso a la carrera de medicina",
     "Resolución sobre las becas de la universidad",
     "Resolución del plan de la carrera de medicina"}

PageInputs == [url : PageUrls, title : PageTitles, content : PageContents]

\* min_content_words of the request (1 to 200, 5 by default)
MinContentWords == {1, 5}

\* The requests the loop body is run under for one page
PageRequests ==
    {req \in Requests : /\ req.max_pages = 1 /\ req.count_valid_pages_only
                        /\ req.use_allow_filter}

\* The crawler has fetched a page
InitValidator ==
    /\ jobs = <<>> /\ tasks = <<>> /\ now = 0 /\ response = None
    /\ call \in {Some([op |-> "input", args |-> page]) : page \in PageInputs}

CallInvalidReason(min_content_words) ==
    /\ call[1].op = "input"
    /\ LET page == call[1].args
       IN  call' = Some([op |-> "_invalid_reason", args |-> page,
                         min_content_words |-> min_content_words,
                         result |-> invalid_reason(page.url, page.title,
                                                   page.content,
                                                   min_content_words)])
    /\ UNCHANGED <<jobs, tasks, now, response>>

CallIsInstitutionalNews ==
    /\ call[1].op = "input"
    /\ LET page == call[1].args
       IN  call' = Some([op |-> "is_institutional_news", args |-> page,
                         result |-> is_institutional_news(page.url, page.title,
                                                          page.content)])
    /\ UNCHANGED <<jobs, tasks, now, response>>

\* One iteration of the result loop on the fetched page, the only result of
\* the crawl, under a request req and with _save_markdown_to_disk and
\* process_and_save ending as md and db say (fixed to "saved" where the
\* iteration does not call them): the metrics before and after, and the
\* rows appended to skipped_invalid_urls
CallLoopBody(min_content_words) ==
    /\ call[1].op = "input"
    /\ \E page \in {call[1].args} :
       \E reason \in {invalid_reason(page.url, page.title, page.content,
                                     min_content_words)},
          allow \in {matches_allow_priority(page.url, page.title)},
          req \in PageRequests, md, db \in {"saved", "skipped", "raise"} :
          LET res == [success |-> TRUE, valid |-> reason = None,
                      allow |-> allow, md |-> md, db |-> db]
              metrics == InitialMetrics(1, req, 0, 0)
          IN  /\ ~res.valid \/ ~req.save_markdown_files => md = "saved"
              /\ ~res.valid \/ ~req.persist_to_db
                     \/ (req.save_markdown_files /\ md = "raise")
                    => db = "saved"
              /\ call' = Some([op |-> "loop_body", args |-> page,
                               req |-> req,
                               min_content_words |-> min_content_words,
                               metrics |-> metrics,
                               result |-> LoopBody(metrics, res, req).metrics,
                               skipped_invalid_urls |->
                                  IF reason # None
                                  THEN <<<<page.url, reason[1]>>>>
                                  ELSE <<>>])
    /\ UNCHANGED <<jobs, tasks, now, response>>

NextValidator ==
    \/ \E n \in MinContentWords : CallInvalidReason(n)
    \/ CallIsInstitutionalNews
    \/ \E n \in MinContentWords : CallLoopBody(n)

SpecValidator == InitValidator /\ [][NextValidator]_vars

----------------------------------------------------------------------------
(* The result loop of run_institutional_crawl with its hook calls and its  *)
(* three lists (worker.py), run on its own.  A second crawl, the twin, is  *)
(* run over the same results next to the first one: it may differ in       *)
(* use_allow_filter and in what _matches_allow_priority answers.           *)

\* The rows the try block appends to skipped_ingestion_rows for a page
IngestRows(url, res, req) ==
    IF req.save_markdown_files /\ res.md = "raise"
    THEN <<<<url, "processing_error">>>>
    ELSE LET md_rows == IF req.save_markdown_files /\ res.md = "skipped"
                        THEN <<<<url, "save_reason">>>> ELSE <<>>
         IN  IF ~req.persist_to_db THEN md_rows
             ELSE IF res.db = "raise"
             THEN md_rows \o <<<<url, "processing_error">>>>
             ELSE IF res.db = "skipped"
             THEN md_rows \o <<<<url, "reason">>>>
             ELSE md_rows

\* The iteration with successful_results counted before the test of
\* res.success
Iteration_CountFailed(m, url, res, req) ==
    IF ~res.success
    THEN [metrics |-> Bump(m, "successful_results"),
          hooks |-> <<Bump(m, "successful_results")>>, failed |-> <<url>>,
          invalid |-> <<>>, ingestion |-> <<>>, brk |-> FALSE]
    ELSE LET m1 == Bump(m, "successful_results")
         IN  IF ~res.valid
             THEN LET m2 == Bump(m1, "skipped_invalid_content")
                  IN  [metrics |-> m2, hooks |-> <<m2>>, failed |-> <<>>,
                       invalid |-> <<<<url, "invalid_reason">>>>,
                       ingestion |-> <<>>, brk |-> FALSE]
             ELSE LET m2 == Bump(m1, "accepted_valid_pages")
                      m3 == IF req.use_allow_filter /\ res.allow
                            THEN Bump(m2, "matched_allow_filter") ELSE m2
                      r == Ingest(m3, res, req)
                      rows == IngestRows(url, res, req)
                  IN  IF r.raised
                      THEN [metrics |-> r.metrics, hooks |-> <<r.metrics>>,
                            failed |-> <<>>, invalid |-> <<>>,
                            ingestion |-> rows, brk |-> FALSE]
                      ELSE [metrics |-> TargetCheck(r.metrics, req),
                            hooks |-> <<r.metrics>>,
                            failed |-> <<>>, invalid |-> <<>>,
                            ingestion |-> rows,
                            brk |-> TargetCheck(r.metrics, req) # r.metrics]

\* The iteration with an allow filter that rejects the pages it does not
\* match
Iteration_AllowExcludes(m, url, res, req) ==
    IF ~res.success
    THEN [metrics |-> m, hooks |-> <<m>>, failed |-> <<url>>,
          invalid |-> <<>>, ingestion |-> <<>>, brk |-> FALSE]
    ELSE LET m1 == Bump(m, "successful_results")
         IN  IF ~res.valid
             THEN LET m2 == Bump(m1, "skipped_invalid_content")
                  IN  [metrics |-> m2, hooks |-> <<m2>>, failed |-> <<>>,
                       invalid |-> <<<<url, "invalid_reason">>>>,
                       ingestion |-> <<>>, brk |-> FALSE]
             ELSE IF req.use_allow_filter /\ ~res.allow
             THEN LET m2 == Bump(m1, "blocked_by_allow_filter")
                  IN  [metrics |-> m2, hooks |-> <<m2>>, failed |-> <<>>,
                       invalid |-> <<>>, ingestion |-> <<>>, brk |-> FALSE]
             ELSE LET m2 == Bump(m1, "accepted_valid_pages")
                      m3 == IF req.use_allow_filter /\ res.allow
                            THEN Bump(m2, "matched_allow_filter") ELSE m2
                      r == Ingest(m3, res, req)
                      rows == IngestRows(url, res, req)
                  IN  IF r.raised
                      THEN [metrics |-> r.metrics, hooks |-> <<r.metrics>>,
                            failed |-> <<>>, invalid |-> <<>>,
                            ingestion |-> rows, brk |-> FALSE]
                      ELSE [metrics |-> TargetCheck(r.metrics, req),
                            hooks |-> <<r.metrics>>,
                            failed |-> <<>>, invalid |-> <<>>,
                            ingestion |-> rows,
                            brk |-> TargetCheck(r.metrics, req) # r.metrics]

\* The iteration with no progress_hook call in the except clause
Iteration_NoHookOnError(m, url, res, req) ==
    IF ~res.success
    THEN [metrics |-> m, hooks |-> <<m>>, failed |-> <<url>>,
          invalid |-> <<>>, ingestion |-> <<>>, brk |-> FALSE]
    ELSE LET m1 == Bump(m, "successful_results")
         IN  IF ~res.valid
             THEN LET m2 == Bump(m1, "skipped_invalid_content")
                  IN  [metrics |-> m2, hooks |-> <<m2>>, failed |-> <<>>,
                       invalid |-> <<<<url, "invalid_reason">>>>,
                       ingestion |-> <<>>, brk |-> FALSE]
             ELSE LET m2 == Bump(m1, "accepted_valid_pages")
                      m3 == IF req.use_allow_filter /\ res.allow
                            THEN Bump(m2, "matched_allow_filter") ELSE m2
                      r == Ingest(m3, res, req)
                      rows == IngestRows(url, res, req)
                  IN  IF r.raised
                      THEN [metrics |-> r.metrics, hooks |-> <<>>,
                            failed |-> <<>>, invalid |-> <<>>,
                            ingestion |-> rows, brk |-> FALSE]
                      ELSE [metrics |-> TargetCheck(r.metrics, req),
                            hooks |-> <<r.metrics>>,
                            failed |-> <<>>, invalid |-> <<>>,
                            ingestion |-> rows,
                            brk |-> TargetCheck(r.metrics, req) # r.metrics]

\* One iteration of 'for res in result' on the result res of url: the
\* metrics it leaves, the snapshots it passes to progress_hook in order,
\* the rows it appends to the three lists, and whether it ends in 'break'
Iteration(m, url, res, req) ==
    IF ~res.success
    THEN [metrics |-> m, hooks |-> <<m>>, failed |-> <<url>>,
          invalid |-> <<>>, ingestion |-> <<>>, brk |-> FALSE]
    ELSE LET m1 == Bump(m, "successful_results")
         IN  IF ~res.valid
             THEN LET m2 == Bump(m1, "skipped_invalid_content")
                  IN  [metrics |-> m2, hooks |-> <<m2>>, failed |-> <<>>,
                       invalid |-> <<<<url, "invalid_reason">>>>,
                       ingestion |-> <<>>, brk |-> FALSE]
             ELSE LET m2 == Bump(m1, "accepted_valid_pages")
                      m3 == IF req.use_allow_filter /\ res.allow
                            THEN Bump(m2, "matched_allow_filter") ELSE m2
                      r == Ingest(m3, res, req)
                      rows == IngestRows(url, res, req)
                  IN  IF r.raised
                      THEN [metrics |-> r.metrics, hooks |-> <<r.metrics>>,
                            failed |-> <<>>, invalid |-> <<>>,
                            ingestion |-> rows, brk |-> FALSE]
                      ELSE [metrics |-> TargetCheck(r.metrics, req),
                            hooks |-> <<r.metrics>>,
                            failed |-> <<>>, invalid |-> <<>>,
                            ingestion |-> rows,
                            brk |-> TargetCheck(r.metrics, req) # r.metrics]

\* The locals of the loop once crawler.arun has returned n results
NewRun(req, n, blocked_host, blocked_block) ==
    [req |-> req, pc |-> "loop", idx |-> 0,
     metrics |-> InitialMetrics(n, req, blocked_host, blocked_block),
     hooks |-> <<>>, failed_fetch_urls |-> <<>>,
     skipped_invalid_urls |-> <<>>, skipped_ingestion_rows |-> <<>>]

\* The loop goes on to its next result
CanIterate(run) ==
    /\ run.pc = "loop"
    /\ run.idx < run.metrics["total_results"]
    /\ run.metrics["finished_reason"] = "running"

\* The next result of the list is res: one iteration of the loop
IterateRun(run, res) ==
    LET it == Iteration(run.metrics, run.idx + 1, res, run.req)
    IN  [run EXCEPT !.idx = @ + 1, !.metrics = it.metrics,
                    !.hooks = it.hooks,
                    !.failed_fetch_urls = @ \o it.failed,
                    !.skipped_invalid_urls = @ \o it.invalid,
                    !.skipped_ingestion_rows = @ \o it.ingestion]

\* The statements after the loop
CloseRun(run) ==
    LET m == CloseReason(run.metrics)
    IN  [run EXCEPT !.pc = "closed", !.metrics = m, !.hooks = <<m>>]

\* The twin takes its next step on res
StepRun(run, res) ==
    IF CanIterate(run) THEN IterateRun(run, res)
    ELSE IF run.pc = "loop" THEN CloseRun(run)
    ELSE run

\* The pairs of requests of a crawl and its twin
LoopRequests ==
    {rr \in Requests \X Requests :
        rr[2] = [rr[1] EXCEPT !.use_allow_filter = rr[2].use_allow_filter]}

\* crawler.arun has returned a list of n results to both crawls
InitCrawlLoop ==
    /\ jobs = <<>> /\ tasks = <<>> /\ now = 0 /\ response = None
    /\ call \in {Some([op |-> "arun", res |-> None,
                       run |-> NewRun(rr[1], n, st[1], st[2]),
                       twin |-> NewRun(rr[2], n, st[1], st[2])]) :
                    rr \in LoopRequests, n \in 0..MaxResults,
                    st \in FilterStats}

\* Both crawls process the next result; _matches_allow_priority answers
\* res.allow in the crawl and allow in its twin
IterateResult(res, allow) ==
    /\ CanIterate(call[1].run)
    /\ Relevant(res, call[1].run.req)
    /\ ~res.valid \/ ~call[1].twin.req.use_allow_filter => ~allow
    /\ call' = Some([op |-> "iteration", res |-> Some(res),
                     run |-> IterateRun(call[1].run, res),
                     twin |-> StepRun(call[1].twin,
                                      [res EXCEPT !.allow = allow])])
    /\ UNCHANGED <<jobs, tasks, now, response>>

\* The crawl leaves its loop
CloseLoop ==
    /\ call[1].run.pc = "loop" /\ ~CanIterate(call[1].run)
    /\ call' = Some([op |-> "close", res |-> None,
                     run |-> CloseRun(call[1].run),
                     twin |-> StepRun(call[1].twin, [success |-> FALSE,
                                  valid |-> FALSE, allow |-> FALSE,
                                  md |-> "saved", db |-> "saved"])])
    /\ UNCHANGED <<jobs, tasks, now, response>>

NextCrawlLoop ==
    \/ \E res \in Results, allow \in BOOLEAN : IterateResult(res, allow)
    \/ CloseLoop

SpecCrawlLoop == InitCrawlLoop /\ [][NextCrawlLoop]_vars

----------------------------------------------------------------------------
(* The page budget of run_institutional_crawl (worker.py), computed on its *)
(* own                                                                     *)

MaxWindow == 10    \* half width of the ranges of max_pages tried

\* max_pages is an int without limits in ScrapeRequest: the values around
\* 0 and around the points where the budget formula changes its branch
BudgetPoints == {0, 167, 12500, 50000}

BudgetInputs ==
    {p + d : p \in BudgetPoints, d \in (0 - MaxWindow)..MaxWindow}

InitBudget ==
    /\ jobs = <<>> /\ tasks = <<>> /\ now = 0 /\ response = None
    /\ call \in {Some([op |-> "input", max_pages |-> n,
                       count_valid_pages_only |-> b]) :
                    n \in BudgetInputs, b \in BOOLEAN}

\* config.max_pages as lines 287-290 leave it
CallCrawlBudget ==
    /\ call[1].op = "input"
    /\ call' = Some([op |-> "crawl_budget_pages",
                     max_pages |-> call[1].max_pages,
                     count_valid_pages_only |-> call[1].count_valid_pages_only,
                     result |-> crawl_budget_pages(
                                   call[1].max_pages,
                                   call[1].count_valid_pages_only)])
    /\ UNCHANGED <<jobs, tasks, now, response>>

NextBudget == CallCrawlBudget

SpecBudget == InitBudget /\ [][NextBudget]_vars

----------------------------------------------------------------------------
(* Two jobs in one registry: their tasks up to a failure of the crawl, and *)
(* callers of the JobManager that name either job                          *)

\* Values uuid.uuid4() returns to the two submissions
JobIds == {"u1", "u2"}

\* start_scraping with uuid4() = job_id
StartScraping(job_id, req) ==
    /\ job_id \notin DOMAIN jobs
    /\ jobs' = create_job(jobs, job_id, now)
    /\ tasks' = [j \in DOMAIN tasks \cup {job_id} |->
                    IF j = job_id THEN NewTask(req) ELSE tasks[j]]
    /\ response' = Some([code |-> 200, job_id |-> job_id,
                         status |-> "accepted"])
    /\ UNCHANGED <<now, call>>

\* The requests of the two submissions
TwoJobRequests ==
    {req \in Requests : /\ req.max_pages = 1 /\ req.persist_to_db
                        /\ req.count_valid_pages_only /\ req.use_allow_filter
                        /\ ~req.save_markdown_files}

\* Keyword arguments and metric keys the callers pass
TwoJobKwargs ==
    {kwargs \in KwargsSamples : "errors" \in DOMAIN kwargs}

NextTwoJobs ==
    \/ \E job_id \in JobIds, req \in TwoJobRequests : StartScraping(job_id, req)
    \/ \E j \in JobIds : StartTask(j)
    \/ \E j \in JobIds, e \in Exceptions : Fail(j, e)
    \/ \E job_id \in JobIds, kwargs \in TwoJobKwargs :
          CallUpdateJob(job_id, kwargs)
    \/ \E job_id \in JobIds, amount \in {MaxAmount} :
          CallIncrementMetric(job_id, "saved_docs", amount)
    \/ Tick

SpecTwoJobs == Init /\ [][NextTwoJobs]_vars

----------------------------------------------------------------------------
(* Properties *)

\* The crawl of job j has built its metrics dict (crawler.arun returned a list)
HasMetrics(j) == "finished_reason" \in DOMAIN tasks[j].metrics

\* The step is a progress_hook call of job j: an iteration of the result
\* loop or the call after it
HookStep(j) ==
    /\ j \in DOMAIN tasks /\ tasks[j].pc = "loop"
    /\ tasks'[j].pc \in {"loop", "closing"}
    /\ tasks'[j] # tasks[j]

\* run_institutional_crawl of job j has run through its result list and has
\* not raised
CrawlFinished(j) ==
    /\ HasMetrics(j)
    /\ tasks[j].pc = "closing" \/ (tasks[j].pc = "done" /\ tasks[j].exc = None)

\* C1: the stored progress_pct of a job never decreases from one state to
\* the next, whichever step of run_scrape_task is taken (the 'running'
\* update, a pulse tick, a hook call, the completed or failed update).
C1_ProgressNeverDecreases ==
    [][\A j \in DOMAIN jobs :
          j \in DOMAIN jobs' /\ jobs'[j].progress_pct >= jobs[j].progress_pct]_vars

\* A hook call found the metrics-driven value below the stored one, which
\* the pulse had raised, and the stored value was kept and nudged.
C1_Witness ==
    \E j \in DOMAIN tasks :
       /\ tasks[j].first_metrics_seen /\ jobs[j].status = "running"
       /\ jobs[j].progress_pct > 2000
       /\ estimate_progress(jobs[j].metrics, tasks[j].req.max_pages,
                            tasks[j].req.count_valid_pages_only) < 2000

\* C2: a hook call that writes a progress_pct below 3 or at 100 writes
\* eta_seconds = None; it writes a number only for 3 <= pct < 100.
C2_EtaNoneOutsideRange ==
    [][\A j \in DOMAIN jobs :
          HookStep(j) /\ jobs'[j].eta_seconds # None
             => jobs'[j].progress_pct >= 300 /\ jobs'[j].progress_pct < 10000]_vars

\* A hook call made after time has passed wrote a progress_pct below 3
\* and no ETA.
C2_Witness ==
    \E j \in DOMAIN tasks :
       /\ tasks[j].first_metrics_seen /\ jobs[j].status = "running"
       /\ now > tasks[j].started_at
       /\ jobs[j].progress_pct < 300 /\ jobs[j].eta_seconds = None

\* C3: when the crawl has run through its result list, finished_reason is
\* target_reached if count_valid_pages_only is set and accepted_valid_pages
\* reached max_pages, and frontier_exhausted in every other case.
C3_FinishedReasonMatchesTarget ==
    \A j \in DOMAIN tasks :
       CrawlFinished(j) =>
          LET m == tasks[j].metrics
              req == tasks[j].req
          IN  IF req.count_valid_pages_only
                 /\ m["accepted_valid_pages"] >= req.max_pages
              THEN m["finished_reason"] = "target_reached"
              ELSE m["finished_reason"] = "frontier_exhausted"

\* C4: finished_reason is one of running, target_reached and
\* frontier_exhausted, a terminal value is never changed by a later step,
\* and a terminal value stored by the hook is the one the crawl holds.
C4_FinishedReasonWriteOnce ==
    /\ [](\A j \in DOMAIN tasks :
            HasMetrics(j) =>
               /\ tasks[j].metrics["finished_reason"] \in
                     {"running", "target_reached", "frontier_exhausted"}
               /\ Get(jobs[j].metrics, "finished_reason", "running") # "running"
                     => jobs[j].metrics["finished_reason"]
                           = tasks[j].metrics["finished_reason"])
    /\ [][\A j \in DOMAIN tasks :
            HasMetrics(j) /\ tasks[j].metrics["finished_reason"] # "running"
               => /\ HasMetrics(j)'
                  /\ tasks'[j].metrics["finished_reason"]
                        = tasks[j].metrics["finished_reason"]]_vars

\* The crawl stopped on target_reached and the last hook call stored it.
C4_Witness ==
    \E j \in DOMAIN tasks :
       /\ tasks[j].pc = "done" /\ HasMetrics(j)
       /\ tasks[j].metrics["finished_reason"] = "target_reached"
       /\ Get(jobs[j].metrics, "finished_reason", "running") = "target_reached"

\* accepted_valid_pages <= successful_results <= total_results in a metrics
\* dict, a missing key counting as 0
CountersOrdered(m) ==
    /\ Get(m, "accepted_valid_pages", 0) <= Get(m, "successful_results", 0)
    /\ Get(m, "successful_results", 0) <= Get(m, "total_results", 0)

\* C5: in the metrics dict of every crawl (the snapshot its hook calls
\* pass) and in every stored job metrics map,
\* accepted_valid_pages <= successful_results <= total_results.
C5_CountersOrdered ==
    /\ \A j \in DOMAIN jobs : CountersOrdered(jobs[j].metrics)
    /\ \A j \in DOMAIN tasks : HasMetrics(j) => CountersOrdered(tasks[j].metrics)

\* A stored snapshot in which every result was fetched and some but not
\* all of the fetched pages were accepted.
C5_Witness ==
    \E j \in DOMAIN jobs :
       /\ Get(jobs[j].metrics, "accepted_valid_pages", 0) >= 1
       /\ Get(jobs[j].metrics, "accepted_valid_pages", 0)
             < jobs[j].metrics["successful_results"]
       /\ jobs[j].metrics["successful_results"] = jobs[j].metrics["total_results"]

\* C6: with count_valid_pages_only set and max_pages >= 1 no result is
\* processed once accepted_valid_pages has reached max_pages: the counter
\* never exceeds max_pages, and it equals max_pages when finished_reason is
\* target_reached.
C6_StopsAtTarget ==
    \A j \in DOMAIN tasks :
       HasMetrics(j) /\ tasks[j].req.count_valid_pages_only
                     /\ tasks[j].req.max_pages >= 1
          => /\ tasks[j].metrics["accepted_valid_pages"] <= tasks[j].req.max_pages
             /\ tasks[j].metrics["finished_reason"] = "target_reached"
                   => tasks[j].metrics["accepted_valid_pages"]
                         = tasks[j].req.max_pages

\* C7: once run_institutional_crawl has returned, run_scrape_task leaves the
\* job completed with progress_pct 100 and finished_at set, and no later
\* step writes to a completed job.
C7_ReturnLeavesCompleted ==
    /\ [](\A j \in DOMAIN tasks :
            tasks[j].pc = "done" /\ tasks[j].exc = None
               => /\ jobs[j].status = "completed"
                  /\ jobs[j].progress_pct = 10000
                  /\ jobs[j].finished_at # None)
    /\ [][\A j \in DOMAIN jobs :
            jobs[j].status = "completed"
               => j \in DOMAIN jobs' /\ jobs'[j] = jobs[j]]_vars

\* A crawl that went through hook calls has returned, its job is completed
\* and its pulse was cancelled.
C7_Witness ==
    \E j \in DOMAIN tasks :
       /\ tasks[j].pc = "done" /\ tasks[j].exc = None
       /\ tasks[j].first_metrics_seen /\ tasks[j].pulse = "cancelled"
       /\ jobs[j].status = "completed"

\* C8: once run_institutional_crawl has raised e, the job is failed with
\* progress_pct 100, no ETA, finished_at set and errors = [message,
\* traceback], the message being str(e) or, when that is empty, repr(e);
\* a finished task never leaves its job running.
C8_RaiseLeavesFailed ==
    \A j \in DOMAIN tasks :
       /\ tasks[j].pc = "done" => jobs[j].status # "running"
       /\ tasks[j].pc = "done" /\ tasks[j].exc # None
             => LET e == tasks[j].exc[1]
                IN  /\ jobs[j].status = "failed"
                    /\ jobs[j].progress_pct = 10000
                    /\ jobs[j].eta_seconds = None
                    /\ jobs[j].finished_at # None
                    /\ Len(jobs[j].errors) = 2
                    /\ jobs[j].errors[1] # ""
                    /\ jobs[j].errors[1] = e.str
                          \/ (e.str = "" /\ jobs[j].errors[1] = e.repr)
                    /\ jobs[j].errors[2] = e.tb

\* The crawl raised an exception with an empty message after hook calls
\* had stored progress for the job.
C8_Witness ==
    \E j \in DOMAIN tasks :
       /\ tasks[j].pc = "done" /\ tasks[j].exc # None
       /\ tasks[j].exc[1].str = "" /\ tasks[j].first_metrics_seen
       /\ jobs[j].status = "failed"

\* C9: a submission whose url scheme is not https is answered with a
\* validation error and creates no job and schedules no task.
C9_NonHttpsRejected ==
    [][\A scheme \in SchemeInputs :
          Lower(scheme) # "https" /\ Submit(scheme)
             => /\ jobs' = jobs /\ tasks' = tasks
                /\ response'[1].code = 422]_vars

\* A submission was answered with a validation error while the registry
\* is empty.
C9_Witness ==
    /\ response # None /\ response[1].code = 422
    /\ DOMAIN jobs = {} /\ DOMAIN tasks = {}

\* C10: update_job and increment_metric called with a job id that is not in
\* the registry end without an error and leave the registry as it was.
C10_UnknownIdIsNoOp ==
    [][call' # call /\ call'[1].op \in {"update_job", "increment_metric"}
                    /\ call'[1].job_id \notin DOMAIN jobs
          => jobs' = jobs /\ call'[1].error = None]_vars

\* update_job was called with an id that is not in a non-empty registry.
C10_Witness ==
    /\ call # None /\ call[1].op = "update_job"
    /\ call[1].job_id \notin DOMAIN jobs /\ DOMAIN jobs # {}

\* C11: update_job on a job of the registry, when it returns, leaves the
\* fields it was given at the given values and last_updated_at at the
\* current time; every other field of the record, every other record and
\* the set of job ids are as before.
C11_UpdateJobFrame ==
    [][\A job_id \in CallerIds, kwargs \in KwargsSamples :
          /\ job_id \in DOMAIN jobs
          /\ update_job_error(jobs, job_id, kwargs) = None
          /\ CallUpdateJob(job_id, kwargs)
          => /\ DOMAIN jobs' = DOMAIN jobs
             /\ \A j \in DOMAIN jobs \ {job_id} : jobs'[j] = jobs[j]
             /\ DOMAIN jobs'[job_id] = DOMAIN jobs[job_id]
             /\ jobs'[job_id].last_updated_at = now
             /\ \A f \in DOMAIN jobs[job_id] \ {"last_updated_at"} :
                   jobs'[job_id][f] = IF f \in DOMAIN kwargs THEN kwargs[f]
                                      ELSE jobs[job_id][f]]_vars

\* update_job(phase, eta_seconds) returned on a job created earlier whose
\* status and progress_pct an earlier update had written: those fields and
\* started_at are as they were, last_updated_at is the time of the call.
C11_Witness ==
    /\ call # None /\ call[1].op = "update_job" /\ call[1].error = None
    /\ call[1].job_id \in DOMAIN jobs
    /\ DOMAIN call[1].args = {"phase", "eta_seconds"}
    /\ LET job == jobs[call[1].job_id]
       IN  /\ job.phase = "procesando" /\ job.eta_seconds = Some(5)
           /\ job.status = "running" /\ job.progress_pct = 200
           /\ job.started_at < job.last_updated_at
           /\ job.last_updated_at = now

\* C12: for every host h, domain_variants(h) has exactly 2 elements and
\* normalize_domain of each of them is h.
C12_VariantsNormalizeBack ==
    call[1].op = "domain_variants"
       => /\ Cardinality(call[1].result) = 2
          /\ \A v \in call[1].result : normalize_domain(v) = call[1].args

\* C12 amended: for every non-empty host h in normalized form, that is
\* with normalize_domain(h) = h, domain_variants(h) has exactly 2 elements
\* and normalize_domain of each of them is h.
C12_VariantsOfNormalizedHost ==
    (/\ call[1].op = "domain_variants"
     /\ call[1].args # ""
     /\ normalize_domain(call[1].args) = call[1].args)
       => /\ Cardinality(call[1].result) = 2
          /\ \A v \in call[1].result : normalize_domain(v) = call[1].args

\* domain_variants was called on the normalized host 'aa' and returned the
\* bare and the www. form.
C12_Witness ==
    /\ call[1].op = "domain_variants"
    /\ call[1].args = "aa"
    /\ call[1].result = {"aa", "www.aa"}

\* C13: normalize_domain applied to a value normalize_domain returned
\* returns that value.
C13_NormalizeIdempotent ==
    [][call[1].op = "normalize_domain" /\ CallNormalizeDomain
          => call'[1].result = call[1].result]_vars

\* C14: ExactHostFilter.apply(url) returns true only if the scheme of the
\* url is https and the normalized host of the url is in the variant set
\* of the seed host; a call that returns false adds exactly 1 to the
\* rejected counter and a call that returns true leaves it as it was.
C14_HostFilterAcceptsSeedHostOnly ==
    /\ [](call[1].op = "ExactHostFilter"
            => call[1].self.allowed_hosts = domain_variants(call[1].args))
    /\ [][\A url \in UrlInputs :
            CallApply(url)
               => /\ call'[1].self.allowed_hosts = call[1].self.allowed_hosts
                  /\ call'[1].result
                        => /\ urlparse(url).scheme = "https"
                           /\ normalize_domain(url)
                                 \in call[1].self.allowed_hosts
                  /\ call'[1].self.stats.rejected_urls
                        = call[1].self.stats.rejected_urls
                             + (IF call'[1].result THEN 0 ELSE 1)]_vars

\* C15: a page that matches both an institutional-news token and an
\* academic-priority token (its url has a NEWS_URL_TOKENS token, and its
\* url or title an ALLOW_PRIORITY_TOKENS token such as /carreras) is not
\* classified as institutional news: is_institutional_news returns false
\* and _invalid_reason does not return institutional_news for it.
C15_PriorityPageIsNotNews ==
    LET page == call[1].args
        both == /\ AnyIn(NEWS_URL_TOKENS, str_lower(page.url))
                /\ matches_allow_priority(page.url, page.title)
    IN  /\ call[1].op = "is_institutional_news" /\ both
              => call[1].result = FALSE
        /\ call[1].op = "_invalid_reason" /\ both
              => call[1].result # Some("institutional_news")

\* The counters the try block of the loop body writes: saving the snapshot
\* or forwarding the page to process_and_save changes one of them
SaveCounters ==
    {"saved_markdown_files", "skipped_save_markdown", "saved_docs",
     "skipped_ingestion", "skipped_db_disabled", "skipped_processing_errors"}

\* The loop body counted the page under skipped_invalid_content with the
\* given reason, did not accept it and did not save or forward it
SkippedAs(reason) ==
    /\ call[1].result["skipped_invalid_content"]
          = call[1].metrics["skipped_invalid_content"] + 1
    /\ call[1].skipped_invalid_urls = <<<<call[1].args.url, reason>>>>
    /\ call[1].result["accepted_valid_pages"]
          = call[1].metrics["accepted_valid_pages"]
    /\ \A k \in SaveCounters : call[1].result[k] = call[1].metrics[k]

\* C16: a fetched page whose content contains the not-found marker is
\* counted under skipped_invalid_content with the reason not_found_page, is
\* not counted in accepted_valid_pages and is neither saved as a snapshot
\* nor passed to process_and_save.
C16_NotFoundPageSkipped ==
    call[1].op = "loop_body"
       /\ not_found_marker(str_lower(call[1].args.content))
       => SkippedAs("not_found_page")

\* C16 amended: such a page is counted under skipped_invalid_content, not
\* accepted and neither saved nor forwarded; its reason is not_found_page
\* unless the path of its url is empty or '/', and root_path then.
C16_NotFoundPageSkippedOrRoot ==
    call[1].op = "loop_body"
       /\ not_found_marker(str_lower(call[1].args.content))
       => IF urlparse(str_lower(call[1].args.url)).path \in {"", "/"}
          THEN SkippedAs("root_path")
          ELSE SkippedAs("not_found_page")

\* A not-found page below the root, long enough and with admission words
\* in it, went through the loop body of a crawl that saves snapshots and
\* persists pages, and was skipped.
C16_Witness ==
    /\ call[1].op = "loop_body"
    /\ call[1].args.url = "https://a.com/carreras"
    /\ call[1].args.content
          = "Página no encontrada: requisitos de ingreso a la carrera"
    /\ call[1].req.persist_to_db /\ call[1].req.save_markdown_files
    /\ call[1].result["skipped_invalid_content"] = 1
    /\ call[1].result["successful_results"] = 1

\* The reasons of _invalid_reason in their priority order
ReasonOrder ==
    <<"empty_content", "blank_content", "root_path", "not_found_page",
      "too_short", "institutional_news", "outdated_content">>

\* Whether each of the seven conditions holds of a page, in that order
ReasonConditions(page, min_content_words) ==
    LET text == str_lower(str_strip(page.content))
    IN  <<page.content = "",
          text = "",
          urlparse(str_lower(page.url)).path \in {"", "/"},
          not_found_marker(text),
          word_count(text) < Max(1, min_content_words),
          is_institutional_news(page.url, page.title, text),
          is_outdated_content(page.url, page.title, text)>>

\* C17: _invalid_reason returns the reason of the first of the seven
\* conditions, in the order empty_content, blank_content, root_path,
\* not_found_page, too_short, institutional_news, outdated_content, that
\* holds of the page, and None exactly when none of them holds.
C17_FirstMatchingReason ==
    call[1].op = "_invalid_reason"
       => \E holds \in {ReasonConditions(call[1].args,
                                         call[1].min_content_words)} :
             LET matching == {i \in 1..7 : holds[i]}
             IN  IF matching = {} THEN call[1].result = None
                 ELSE call[1].result
                         = Some(ReasonOrder[CHOOSE i \in matching :
                                               \A k \in matching : i <= k])

\* _invalid_reason was called on a page below the root whose content is
\* the not-found marker alone, three words against a minimum of five, and
\* returned not_found_page.
C17_Witness ==
    /\ call[1].op = "_invalid_reason"
    /\ call[1].args.url = "https://a.com/prensa/2019"
    /\ call[1].args.content = "Página no encontrada"
    /\ call[1].min_content_words = 5
    /\ call[1].result = Some("not_found_page")

\* _save_markdown_to_disk or process_and_save raises on the result res of a
\* crawl run under req
RaisesInTry(res, req) ==
    /\ res.success /\ res.valid
    /\ \/ req.save_markdown_files /\ res.md = "raise"
       \/ req.persist_to_db /\ res.db = "raise"

\* The results on which one of the two calls of the try block raises
RaisingResults ==
    {res \in Results : /\ res.success /\ res.valid
                       /\ res.md = "raise" \/ res.db = "raise"}

\* C18: when saving the snapshot or forwarding an accepted page to
\* process_and_save raises, the iteration adds exactly 1 to
\* skipped_processing_errors, the crawl stays in its loop and goes on to
\* the next result, and neither the task nor the job is failed by it.
C18_ProcessingErrorIsCaught ==
    [][\A j \in DOMAIN tasks :
          tasks[j].pc = "loop" /\ now' = now
             => \A res \in RaisingResults :
                   RaisesInTry(res, tasks[j].req) /\ ProcessResult(j, res)
                      => /\ tasks'[j].metrics["skipped_processing_errors"]
                            = tasks[j].metrics["skipped_processing_errors"] + 1
                         /\ tasks'[j].pc = "loop" /\ tasks'[j].exc = None
                         /\ tasks'[j].idx = tasks[j].idx + 1
                         /\ tasks'[j].metrics["finished_reason"] = "running"
                         /\ jobs'[j].status = "running"
                         /\ jobs'[j].metrics["skipped_processing_errors"]
                            = tasks'[j].metrics["skipped_processing_errors"]]_vars

\* The first result of a crawl raised in the try block, the second one was
\* saved by process_and_save, and the job is completed.
C18_Witness ==
    \E j \in DOMAIN tasks :
       /\ tasks[j].pc = "done" /\ tasks[j].exc = None /\ HasMetrics(j)
       /\ tasks[j].metrics["skipped_processing_errors"] = 1
       /\ tasks[j].metrics["saved_docs"] = 1
       /\ tasks[j].metrics["accepted_valid_pages"] = 2
       /\ jobs[j].status = "completed"

\* C19: calls of update_job and increment_metric on one job, made in any
\* order by any callers, lose no update: an increment_metric call leaves
\* metrics[key] at its stored value plus the amount and every other metric
\* and field as stored, and an update_job call that does not name metrics
\* leaves the metrics as stored.
C19_NoLostUpdate ==
    [][\A job_id \in DOMAIN jobs :
          /\ \A key \in KeySamples, amount \in 1..MaxAmount :
                increment_metric_error(jobs, job_id, key) = None
                   /\ CallIncrementMetric(job_id, key, amount)
                => /\ jobs'[job_id].metrics[key]
                         = Get(jobs[job_id].metrics, key, 0) + amount
                   /\ \A k \in DOMAIN jobs[job_id].metrics \ {key} :
                         jobs'[job_id].metrics[k] = jobs[job_id].metrics[k]
                   /\ \A f \in DOMAIN jobs[job_id] \ {"metrics"} :
                         jobs'[job_id][f] = jobs[job_id][f]
          /\ \A kwargs \in KwargsSamples :
                "metrics" \notin DOMAIN kwargs /\ CallUpdateJob(job_id, kwargs)
                => jobs'[job_id].metrics = jobs[job_id].metrics]_vars

\* Increments by 1 have brought the metric 'custom', absent at first,
\* to 2 and saved_docs to 1 on a job that update_job calls had set to
\* running with a progress of 2 % and an ETA, all of which are still stored.
C19_Witness ==
    /\ call # None /\ call[1].op = "increment_metric"
    /\ call[1].args = <<"custom", 1>> /\ call[1].job_id \in DOMAIN jobs
    /\ LET job == jobs[call[1].job_id]
       IN  /\ Get(job.metrics, "custom", 0) = 2
           /\ Get(job.metrics, "saved_docs", 0) = 1
           /\ job.status = "running" /\ job.progress_pct = 200
           /\ job.eta_seconds = Some(5)

\* The statuses a finished job has
TerminalStatuses == {"completed", "failed"}

\* C20: once the status of a job is completed or failed no step changes
\* its record, so the status is never replaced and the pulse writes nothing
\* after the terminal update; the pulse of such a job is no longer
\* scheduled.
C20_TerminalRecordIsFinal ==
    /\ [](\A j \in DOMAIN tasks :
            jobs[j].status \in TerminalStatuses
               => tasks[j].pc = "done" /\ tasks[j].pulse # "sleeping")
    /\ [][\A j \in DOMAIN jobs :
            jobs[j].status \in TerminalStatuses
               => j \in DOMAIN jobs' /\ jobs'[j] = jobs[j]]_vars

\* The crawl raised before its first snapshot, while the pulse was still
\* writing the simulated progress; the pulse was cancelled, time has passed
\* since, and the failed record is as the terminal update left it.
C20_Witness ==
    \E j \in DOMAIN tasks :
       /\ jobs[j].status = "failed" /\ tasks[j].pulse = "cancelled"
       /\ ~tasks[j].first_metrics_seen
       /\ jobs[j].phase = "error"
       /\ now > jobs[j].last_updated_at

\* The counters of a metrics dict: every key but finished_reason
Counters(m) == [k \in DOMAIN m \ {"finished_reason"} |-> m[k]]

\* C21: every iteration of the result loop, whether the fetch failed, the
\* validator rejected the page, the try block raised or the page was
\* ingested, calls progress_hook exactly once, and the snapshot it passes
\* carries the counters as the iteration leaves them, with finished_reason
\* still 'running'.
C21_OneHookCallPerResult ==
    call # None /\ call[1].op = "iteration"
       => LET run == call[1].run
          IN  /\ Len(run.hooks) = 1
              /\ Counters(run.hooks[1]) = Counters(run.metrics)
              /\ run.hooks[1]["finished_reason"] = "running"

\* The second result of a crawl raised in process_and_save after the first
\* one was saved: the hook was called once, with skipped_processing_errors
\* already counted.
C21_Witness ==
    /\ call # None /\ call[1].op = "iteration"
    /\ call[1].res[1].db = "raise" /\ call[1].run.req.persist_to_db
    /\ call[1].run.idx = 2
    /\ Len(call[1].run.hooks) = 1
    /\ call[1].run.hooks[1]["skipped_processing_errors"] = 1
    /\ call[1].run.hooks[1]["saved_docs"] = 1

\* C22: once on_progress has been called for a job, a round of the pulse
\* writes nothing to the job (progress_pct, phase and message stay as the
\* hook left them), however pulse rounds, hook calls and clock ticks
\* interleave.
C22_PulseSilentAfterFirstMetrics ==
    [][\A j \in DOMAIN tasks :
          tasks[j].first_metrics_seen /\ PulseTick(j) => jobs' = jobs]_vars

\* The hook has been called, the job is running and its pulse is still
\* scheduled a minute later, and the record is as the hook left it.
C22_Witness ==
    \E j \in DOMAIN tasks :
       /\ tasks[j].first_metrics_seen /\ tasks[j].pulse = "sleeping"
       /\ jobs[j].status = "running" /\ jobs[j].phase = "procesando"
       /\ now > jobs[j].last_updated_at

\* The step is an iteration of the result loop of job j: the hook call of
\* an iteration is the only one whose snapshot says 'running', and the
\* iteration the only step that moves on in the result list
RunningHookStep(j) ==
    /\ j \in DOMAIN tasks /\ tasks[j].pc = "loop"
    /\ tasks'[j].idx = tasks[j].idx + 1
    /\ jobs'[j].metrics["finished_reason"] = "running"

\* C23: a hook call with a 'running' snapshot made while the stored
\* progress_pct is below 99.9 leaves a strictly larger progress_pct, and
\* one at least 0.1 larger when the estimate from the snapshot does not
\* exceed the stored value.
C23_RunningHookMovesForward ==
    [][\A j \in DOMAIN tasks :
          RunningHookStep(j) /\ jobs[j].progress_pct < 9990
             => /\ jobs'[j].progress_pct > jobs[j].progress_pct
                /\ estimate_progress(jobs'[j].metrics, tasks[j].req.max_pages,
                                     tasks[j].req.count_valid_pages_only)
                      <= jobs[j].progress_pct
                   => jobs'[j].progress_pct >= jobs[j].progress_pct + 10]_vars

\* The pulse had written 25 % after a minute; the first hook call, whose
\* estimate was lower, left 25.1 %.
C23_Witness ==
    \E j \in DOMAIN tasks :
       /\ tasks[j].first_metrics_seen /\ tasks[j].idx = 1
       /\ jobs[j].status = "running" /\ jobs[j].progress_pct = 2510
       /\ estimate_progress(jobs[j].metrics, tasks[j].req.max_pages,
                            tasks[j].req.count_valid_pages_only) < 2500

\* C25: the budget handed to the crawler is max_pages when
\* count_valid_pages_only is not set; when it is set the budget is
\* max_pages + 500 up to 166 pages, four times max_pages from 167 to 12500
\* pages and 50000 above, which is min(max(4 * max_pages, max_pages + 500),
\* 50000), and it is never below max_pages for 1 <= max_pages <= 50000.
C25_CrawlBudget ==
    call # None /\ call[1].op = "crawl_budget_pages"
       => LET n == call[1].max_pages
              budget == call[1].result
          IN  IF ~call[1].count_valid_pages_only THEN budget = n
              ELSE /\ n <= 166 => budget = n + 500
                   /\ 167 <= n /\ n <= 12500 => budget = 4 * n
                   /\ n > 12500 => budget = 50000
                   /\ 1 <= n /\ n <= 50000 => budget >= n

\* The budget of a crawl for 50000 valid pages is 50000.
C25_Witness ==
    /\ call # None /\ call[1].op = "crawl_budget_pages"
    /\ call[1].count_valid_pages_only /\ call[1].max_pages = 50000
    /\ call[1].result = 50000

\* C26: an iteration on a result whose fetch failed leaves the metrics as
\* they were, appends the url to failed_fetch_urls and nothing to the
\* other two lists, and the loop goes on to the next result.
C26_FailedFetchChangesNoCounter ==
    [][\A res \in Results, allow \in BOOLEAN :
          ~res.success /\ IterateResult(res, allow)
             => LET run == call[1].run
                    after == call'[1].run
                IN  /\ after.metrics = run.metrics
                    /\ after.failed_fetch_urls
                          = Append(run.failed_fetch_urls, run.idx + 1)
                    /\ after.skipped_invalid_urls = run.skipped_invalid_urls
                    /\ after.skipped_ingestion_rows
                          = run.skipped_ingestion_rows
                    /\ after.pc = "loop" /\ after.idx = run.idx + 1]_vars

\* The fetch of the second result failed after the first page was saved:
\* the counters are those of the first iteration.
C26_Witness ==
    /\ call # None /\ call[1].op = "iteration"
    /\ ~call[1].res[1].success
    /\ call[1].run.failed_fetch_urls = <<2>>
    /\ call[1].run.metrics["successful_results"] = 1
    /\ call[1].run.metrics["saved_docs"] = 1
    /\ call[1].run.metrics["total_results"] = 2

\* A metrics dict without its matched_allow_filter counter
AllowBlind(m) == [k \in DOMAIN m \ {"matched_allow_filter"} |-> m[k]]

\* C27: a crawl and its twin, run over the same results and differing only
\* in use_allow_filter and in what _matches_allow_priority answers, are at
\* the same place of the loop with the same three lists and the same
\* metrics, finished_reason included, but for matched_allow_filter, pass
\* the same snapshots but for that counter to the hook, and both keep
\* blocked_by_allow_filter at 0.
C27_AllowMarkerExcludesNothing ==
    call # None /\ call[1].op \in {"arun", "iteration", "close"}
       => LET run == call[1].run
              twin == call[1].twin
          IN  /\ twin.pc = run.pc /\ twin.idx = run.idx
              /\ AllowBlind(twin.metrics) = AllowBlind(run.metrics)
              /\ twin.failed_fetch_urls = run.failed_fetch_urls
              /\ twin.skipped_invalid_urls = run.skipped_invalid_urls
              /\ twin.skipped_ingestion_rows = run.skipped_ingestion_rows
              /\ Len(twin.hooks) = Len(run.hooks)
              /\ \A i \in 1..Len(run.hooks) :
                    AllowBlind(twin.hooks[i]) = AllowBlind(run.hooks[i])
              /\ run.metrics["blocked_by_allow_filter"] = 0
              /\ twin.metrics["blocked_by_allow_filter"] = 0

\* Both crawls use the allow filter and have ended on reaching their
\* target of 2 pages; both pages matched in the crawl and none in its twin.
C27_Witness ==
    /\ call # None /\ call[1].op = "close"
    /\ call[1].run.req.use_allow_filter /\ call[1].twin.req.use_allow_filter
    /\ call[1].run.metrics["finished_reason"] = "target_reached"
    /\ call[1].run.metrics["accepted_valid_pages"] = 2
    /\ call[1].run.metrics["matched_allow_filter"] = 2
    /\ call[1].twin.metrics["matched_allow_filter"] = 0
    /\ call[1].twin.metrics["accepted_valid_pages"] = 2

\* Every accepted page has one ingestion outcome and every fetched page is
\* accepted or skipped as invalid, in the metrics m
Attributed(m) ==
    /\ m["accepted_valid_pages"]
          = m["saved_docs"] + m["skipped_ingestion"]
            + m["skipped_db_disabled"] + m["skipped_processing_errors"]
    /\ m["successful_results"]
          = m["accepted_valid_pages"] + m["skipped_invalid_content"]

\* C29: in every snapshot passed to progress_hook and in the metrics the
\* crawl ends with, accepted_valid_pages = saved_docs + skipped_ingestion
\* + skipped_db_disabled + skipped_processing_errors and
\* successful_results = accepted_valid_pages + skipped_invalid_content.
C29_AcceptedPagesAttributed ==
    call # None /\ call[1].op \in {"arun", "iteration", "close"}
       => LET run == call[1].run
          IN  /\ \A i \in 1..Len(run.hooks) : Attributed(run.hooks[i])
              /\ run.pc = "closed" => Attributed(run.metrics)

\* A crawl of two accepted pages has ended: one was saved, the try block
\* raised on the other, and the last hook call got these metrics.
C29_Witness ==
    /\ call # None /\ call[1].op = "close"
    /\ call[1].run.metrics["accepted_valid_pages"] = 2
    /\ call[1].run.metrics["saved_docs"] = 1
    /\ call[1].run.metrics["skipped_processing_errors"] = 1
    /\ call[1].run.metrics["saved_markdown_files"] = 1
    /\ Len(call[1].run.hooks) = 1

\* The step is a call of update_job or increment_metric that names job a,
\* or the failure of the crawl of job a
StepOnJob(a) ==
    \/ \E kwargs \in TwoJobKwargs : CallUpdateJob(a, kwargs)
    \/ \E amount \in {MaxAmount} : CallIncrementMetric(a, "saved_docs", amount)
    \/ \E e \in Exceptions : Fail(a, e)

\* C28: an update_job or increment_metric call on a job, and the failure
\* of its crawl, leave the stored record and the task of every other job
\* as they were.
C28_JobsAreIsolated ==
    [][\A a \in JobIds : \A b \in DOMAIN jobs \ {a} :
          StepOnJob(a)
             => /\ b \in DOMAIN jobs' /\ jobs'[b] = jobs[b]
                /\ b \in DOMAIN tasks' /\ tasks'[b] = tasks[b]]_vars

\* The crawl of u1 failed a minute after both jobs were started, and u2 is
\* running with the record its own task wrote at the start.
C28_Witness ==
    /\ DOMAIN jobs = JobIds
    /\ jobs["u1"].status = "failed" /\ jobs["u1"].last_updated_at = 60
    /\ Len(jobs["u1"].errors) = 2
    /\ jobs["u2"].status = "running" /\ jobs["u2"].last_updated_at = 0
    /\ jobs["u2"].errors = <<>> /\ jobs["u2"].progress_pct = 200
    /\ tasks["u2"].pc = "crawling"

\* C30: the stored metrics of a completed job carry finished_reason
\* target_reached or frontier_exhausted, whatever crawler.arun returned.
C30_CompletedHasTerminalReason ==
    \A j \in DOMAIN jobs :
       jobs[j].status = "completed"
          => /\ "finished_reason" \in DOMAIN jobs[j].metrics
             /\ jobs[j].metrics["finished_reason"]
                   \in {"target_reached", "frontier_exhausted"}

====
